---- MODULE Spec2Model ----
(***************************************************************************)
(* Model of the resolution and aggregation pipeline of setifest-mvp:       *)
(*   - GlobalCache (src/lib/cache.ts): the two-tier cache;                 *)
(*   - the setlist union handler (src/unnamed/part_001);                   *)
(*   - the catalog resolve handler (src/app/api/spotify/search/route.ts);  *)
(*   - the page that drives them (src/app/page.tsx).                       *)
(* Strings are sequences of one-character strings, so that startsWith,     *)
(* includes, replace and trim are computed character by character.         *)
(***************************************************************************)
EXTENDS Integers, Sequences, FiniteSets, TLC

VARIABLES
    memory,   \* GlobalCache.memory: Map<string, CacheItem>
    disk,     \* the files of CACHE_DIR: file name (hash) -> CacheItem
    now,      \* Date.now()
    last,     \* the most recent operation, its inputs and what it returned
    sets,     \* the number of set calls made so far
    latest,   \* per key, the expiresAt of the most recent set
    env,      \* what the handlers see outside the process: the upstream
              \* services' answers, the calendar year, the request
    home      \* the state of the Home component of page.tsx

vars == <<memory, disk, now, last, sets, latest, env, home>>

----------------------------------------------------------------------------
(* Bounds of the model.                                                    *)

MaxTime == 2
MaxSets == 2

----------------------------------------------------------------------------
(* Maps (JavaScript Map, directory of files) as functions with a finite,   *)
(* changing domain.                                                        *)

EmptyMap == << >>

\* No page is open.
NoPage == [open |-> FALSE]

MapHas(m, k) == k \in DOMAIN m

MapPut(m, k, v) == [x \in (DOMAIN m) \cup {k} |-> IF x = k THEN v ELSE m[x]]

MapDel(m, k) == [x \in (DOMAIN m) \ {k} |-> m[x]]

----------------------------------------------------------------------------
(* Strings.                                                                *)

\* String.prototype.startsWith
StartsWith(s, p) ==
    /\ Len(p) <= Len(s)
    /\ \A i \in 1..Len(p) : s[i] = p[i]

\* String.prototype.includes
Includes(s, p) ==
    \E i \in 0..(Len(s) - Len(p)) : \A j \in 1..Len(p) : s[i + j] = p[j]

UpperCaseLetters ==
    <<"A", "B", "C", "D", "E", "F", "G", "H", "I", "J", "K", "L", "M",
      "N", "O", "P", "Q", "R", "S", "T", "U", "V", "W", "X", "Y", "Z">>

LowerCaseLetters ==
    <<"a", "b", "c", "d", "e", "f", "g", "h", "i", "j", "k", "l", "m",
      "n", "o", "p", "q", "r", "s", "t", "u", "v", "w", "x", "y", "z">>

Digits == <<"0", "1", "2", "3", "4", "5", "6", "7", "8", "9">>

SeqRange(q) == {q[i] : i \in 1..Len(q)}

\* "E'" and "e'" stand for the letters E and e with an acute accent.
LowerChar(c) ==
    IF c \in SeqRange(UpperCaseLetters)
    THEN LowerCaseLetters[CHOOSE i \in 1..26 : UpperCaseLetters[i] = c]
    ELSE IF c = "E'" THEN "e'"
    ELSE c

\* String.prototype.toLowerCase
ToLowerCase(s) == [i \in 1..Len(s) |-> LowerChar(s[i])]

\* The characters the regular expression class \s matches and trim removes.
IsSpace(c) == c \in {" ", "\t"}

\* replace(/\([^)]*\)/g, ""): from each "(" that has a ")" after it, the
\* text up to and including the first such ")" is removed.
RECURSIVE StripParens(_)
StripParens(s) ==
    IF s = << >> THEN << >>
    ELSE IF Head(s) = "(" /\ \E j \in 2..Len(s) : s[j] = ")"
         THEN LET j == CHOOSE j \in 2..Len(s) :
                        /\ s[j] = ")"
                        /\ \A m \in 2..(j - 1) : s[m] # ")"
              IN  StripParens(SubSeq(s, j + 1, Len(s)))
         ELSE <<Head(s)>> \o StripParens(Tail(s))

\* replace(/\//g, " ")
SlashToSpace(s) == [i \in 1..Len(s) |-> IF s[i] = "/" THEN " " ELSE s[i]]

\* replace(/\s+/g, " ")
RECURSIVE CollapseSpaces(_)
CollapseSpaces(s) ==
    IF s = << >> THEN << >>
    ELSE IF IsSpace(Head(s))
         THEN IF Len(s) > 1 /\ IsSpace(s[2])
              THEN CollapseSpaces(Tail(s))
              ELSE <<" ">> \o CollapseSpaces(Tail(s))
         ELSE <<Head(s)>> \o CollapseSpaces(Tail(s))

\* String.prototype.trim
RECURSIVE TrimStart(_)
TrimStart(s) ==
    IF s # << >> /\ IsSpace(Head(s)) THEN TrimStart(Tail(s)) ELSE s

RECURSIVE TrimEnd(_)
TrimEnd(s) ==
    IF s # << >> /\ IsSpace(s[Len(s)])
    THEN TrimEnd(SubSeq(s, 1, Len(s) - 1))
    ELSE s

Trim(s) == TrimEnd(TrimStart(s))

\* F(x), with x evaluated once, before F is applied to its value.
Apply(F(_), x) == CHOOSE r \in { F(v) : v \in {x} } : TRUE

\* String.prototype.split(sep), sep not empty
RECURSIVE Split(_, _)
Split(s, sep) ==
    LET at == { i \in 1..(Len(s) - Len(sep) + 1) :
                  SubSeq(s, i, i + Len(sep) - 1) = sep }
    IN  IF at = {} THEN <<s>>
        ELSE LET i == CHOOSE i \in at : \A j \in at : i <= j
             IN  <<SubSeq(s, 1, i - 1)>>
                 \o Split(SubSeq(s, i + Len(sep), Len(s)), sep)

\* A number of JavaScript that is an integer, or NaN.
NaN == [nan |-> TRUE, n |-> 0]

Number(n) == [nan |-> FALSE, n |-> n]

\* The value of a run of decimal digits.
RECURSIVE DigitsValue(_, _)
DigitsValue(s, acc) ==
    IF s = << >> \/ Head(s) \notin SeqRange(Digits) THEN acc
    ELSE DigitsValue(Tail(s),
                     10 * acc + (CHOOSE d \in 0..9 : Digits[d + 1] = Head(s)))

\* parseInt(s, 10): leading white space is skipped, a sign is read, then
\* the longest run of digits; NaN when there is no digit there.
ParseInt(s) ==
    LET t == TrimStart(s)
        negative == t # << >> /\ Head(t) = "-"
        body == IF t # << >> /\ Head(t) \in {"-", "+"} THEN Tail(t) ELSE t
    IN  IF body = << >> \/ Head(body) \notin SeqRange(Digits) THEN NaN
        ELSE Number(IF negative THEN 0 - DigitsValue(body, 0)
                    ELSE DigitsValue(body, 0))

----------------------------------------------------------------------------
(* GlobalCache.                                                            *)

\* The logical keys and prefixes the cache operations are driven with.
CacheKeys == { <<"a", ":", "x">>, <<"a", ":">> }

CachePrefixes == { <<"a", ":">>, <<"a", ":", "x">>, <<"c">>, << >> }

CacheValues == {"v1", "v2"}

CacheTtls == {1, 3}

\* getHash: the SHA-256 digest of the key.  The digest is modelled as an
\* opaque, collision-free file name: it is not a string that startsWith can
\* be asked of.
getHash(key) == [sha256 |-> key]

CacheItem(expiresAt, value, key) ==
    [expiresAt |-> expiresAt, value |-> value, key |-> key]

\* What get returns: null, or {value, cached: true, source}.
Absent == [found |-> FALSE]

Hit(item, source) ==
    [found |-> TRUE, value |-> item.value, source |-> source,
     expiresAt |-> item.expiresAt]

\* get, step 1: the memory check.  An expired memory item is deleted.
MemoryFresh(mem, t, key) == MapHas(mem, key) /\ mem[key].expiresAt > t

MemoryAfterCheck(mem, t, key) ==
    IF MapHas(mem, key) /\ ~(mem[key].expiresAt > t) THEN MapDel(mem, key) ELSE mem

\* get, step 2: the disk check.
DiskFresh_OffByOne(dsk, t, key) ==
    MapHas(dsk, getHash(key)) /\ dsk[getHash(key)].expiresAt >= t

DiskFresh(dsk, t, key) ==
    MapHas(dsk, getHash(key)) /\ dsk[getHash(key)].expiresAt > t

\* get(key) at time t: the result and the two tiers after it.
CacheGet_NoPromote(mem, dsk, t, key) ==
    IF MemoryFresh(mem, t, key)
    THEN [ret |-> Hit(mem[key], "memory"), memory |-> mem, disk |-> dsk]
    ELSE IF DiskFresh(dsk, t, key)
         THEN [ret |-> Hit(dsk[getHash(key)], "disk"),
               memory |-> MemoryAfterCheck(mem, t, key), disk |-> dsk]
         ELSE [ret |-> Absent,
               memory |-> MemoryAfterCheck(mem, t, key),
               disk |-> MapDel(dsk, getHash(key))]

CacheGet(mem, dsk, t, key) ==
    IF MemoryFresh(mem, t, key)
    THEN [ret |-> Hit(mem[key], "memory"), memory |-> mem, disk |-> dsk]
    ELSE IF DiskFresh(dsk, t, key)
         THEN [ret |-> Hit(dsk[getHash(key)], "disk"),
               memory |-> MapPut(MemoryAfterCheck(mem, t, key), key,
                                 dsk[getHash(key)]),
               disk |-> dsk]
         ELSE [ret |-> Absent,
               memory |-> MemoryAfterCheck(mem, t, key),
               disk |-> MapDel(dsk, getHash(key))]

CacheSet_DiskFirst(mem, dsk, t, key, value, ttlMs, writeOk) ==
    LET item == CacheItem(t + ttlMs, value, key)
    IN  [memory |-> IF writeOk THEN MapPut(mem, key, item) ELSE mem,
         disk |-> IF writeOk THEN MapPut(dsk, getHash(key), item) ELSE dsk]

\* set(key, value, ttlMs) at time t.  writeOk is whether writeFile succeeded:
\* a failed write is caught and logged, and leaves the file as it was.
CacheSet(mem, dsk, t, key, value, ttlMs, writeOk) ==
    LET item == CacheItem(t + ttlMs, value, key)
    IN  [memory |-> MapPut(mem, key, item),
         disk |-> IF writeOk THEN MapPut(dsk, getHash(key), item) ELSE dsk]

\* del(key)
CacheDel(mem, dsk, key) ==
    [memory |-> MapDel(mem, key), disk |-> MapDel(dsk, getHash(key))]

\* clearPrefix(prefix): the keys deleted from memory, the files unlinked, and
\* the count returned.
ClearedMemoryKeys(mem, prefix) == {k \in DOMAIN mem : StartsWith(k, prefix)}

ClearedFiles(dsk, prefix) == {f \in DOMAIN dsk : StartsWith(dsk[f].key, prefix)}

CacheClearPrefix_MemoryOnly(mem, dsk, prefix) ==
    LET mk == ClearedMemoryKeys(mem, prefix)
    IN  [memory |-> [k \in (DOMAIN mem) \ mk |-> mem[k]],
         disk |-> dsk,
         count |-> Cardinality(mk)]

CacheClearPrefix(mem, dsk, prefix) ==
    LET mk == ClearedMemoryKeys(mem, prefix)
        df == ClearedFiles(dsk, prefix)
    IN  [memory |-> [k \in (DOMAIN mem) \ mk |-> mem[k]],
         disk |-> [f \in (DOMAIN dsk) \ df |-> dsk[f]],
         count |-> Cardinality(mk) + Cardinality(df)]

----------------------------------------------------------------------------
(* The record of the most recent operation.                                *)

NoOp == [op |-> "init"]

\* The tiers in which get(key) at time t finds an expired item: memory is
\* always looked at, the disk only when memory gives no fresh item.
ExpiredFound(mem, dsk, t, key) ==
    {x \in {"memory"} : MapHas(mem, key) /\ ~(mem[key].expiresAt > t)}
    \cup {x \in {"disk"} : /\ ~MemoryFresh(mem, t, key)
                            /\ MapHas(dsk, getHash(key))
                            /\ ~(dsk[getHash(key)].expiresAt > t)}

----------------------------------------------------------------------------
(* The cache driven directly: set, get, del, clearPrefix, a process        *)
(* restart (the in-process tier is lost, the files stay) and the clock.    *)

CacheInit ==
    /\ memory = EmptyMap
    /\ disk = EmptyMap
    /\ now = 0
    /\ last = NoOp
    /\ sets = 0
    /\ latest = EmptyMap
    /\ env = [world |-> "none"]
    /\ home = NoPage

Get(key) ==
    LET r == CacheGet(memory, disk, now, key)
    IN  /\ memory' = r.memory
        /\ disk' = r.disk
        /\ last' = [op |-> "get", key |-> key, ret |-> r.ret,
                     expired |-> ExpiredFound(memory, disk, now, key)]
        /\ UNCHANGED <<now, sets, latest, env, home>>

Set(key, value, ttlMs, writeOk) ==
    LET r == CacheSet(memory, disk, now, key, value, ttlMs, writeOk)
    IN  /\ sets < MaxSets
        /\ sets' = sets + 1
        /\ memory' = r.memory
        /\ disk' = r.disk
        /\ last' = [op |-> "set", key |-> key, value |-> value,
                     expiresAt |-> now + ttlMs]
        /\ latest' = MapPut(latest, key,
                            [expiresAt |-> now + ttlMs])
        /\ UNCHANGED <<now, env, home>>

Del(key) ==
    LET r == CacheDel(memory, disk, key)
    IN  /\ memory' = r.memory
        /\ disk' = r.disk
        /\ last' = [op |-> "del", key |-> key]
        /\ UNCHANGED <<now, sets, latest, env, home>>

ClearPrefix(prefix) ==
    LET r == CacheClearPrefix(memory, disk, prefix)
    IN  /\ memory' = r.memory
        /\ disk' = r.disk
        /\ last' = [op |-> "clearPrefix", prefix |-> prefix, count |-> r.count]
        /\ UNCHANGED <<now, sets, latest, env, home>>

Restart ==
    /\ memory' = EmptyMap
    /\ last' = [op |-> "restart"]
    /\ UNCHANGED <<disk, now, sets, latest, env, home>>

Tick ==
    /\ now < MaxTime
    /\ now' = now + 1
    /\ last' = [op |-> "tick"]
    /\ UNCHANGED <<memory, disk, sets, latest, env, home>>

CacheNext ==
    \/ \E key \in CacheKeys : Get(key)
    \/ \E key \in CacheKeys, value \in CacheValues, ttlMs \in CacheTtls,
          writeOk \in BOOLEAN : Set(key, value, ttlMs, writeOk)
    \/ \E key \in CacheKeys : Del(key)
    \/ \E prefix \in CachePrefixes : ClearPrefix(prefix)
    \/ Restart
    \/ Tick

Spec == CacheInit /\ [][CacheNext]_vars

----------------------------------------------------------------------------
(* Claims about GlobalCache, checked under Spec.                           *)

IsGet(l) == l.op = "get"

\* C1: get(k) never returns an entry whose expiresAt is less than or equal
\* to the current time, from either tier; an expired entry that get comes
\* upon is not returned and is gone from the tier it was found in.
C1_NeverReturnsExpired ==
    [][IsGet(last') =>
        LET k == last'.key
            r == last'.ret
        IN  /\ r.found => r.expiresAt > now
            /\ (r.found /\ r.source = "memory") =>
                    /\ MapHas(memory, k)
                    /\ memory[k].expiresAt > now
                    /\ r.value = memory[k].value
            /\ (r.found /\ r.source = "disk") =>
                    /\ MapHas(disk, getHash(k))
                    /\ disk[getHash(k)].expiresAt > now
                    /\ r.value = disk[getHash(k)].value
            /\ (MapHas(memory, k) /\ memory[k].expiresAt <= now) =>
                    /\ ~(r.found /\ r.source = "memory")
                    /\ MapHas(memory', k) => memory'[k].expiresAt > now
            /\ ("disk" \in last'.expired) =>
                    /\ ~r.found
                    /\ ~MapHas(disk', getHash(k))
            /\ MapHas(memory', k) => memory'[k].expiresAt > now
    ]_vars

\* C1 witness: a get found an expired item in both tiers, purged both and
\* reported the key absent.
C1_Witness ==
    /\ IsGet(last)
    /\ last.expired = {"memory", "disk"}
    /\ ~last.ret.found
    /\ ~MapHas(memory, last.key)
    /\ ~MapHas(disk, getHash(last.key))

\* C2: cache round trip.  A get(k) right after set(k, v, ttl), ttl > 0,
\* returns v with source "memory"; a get(k) once the clock has passed the
\* expiresAt of the most recent set(k) returns absent.
C2_RoundTrip ==
    [][IsGet(last') =>
        LET k == last'.key
            r == last'.ret
        IN  /\ (last.op = "set" /\ last.key = k) =>
                    /\ r.found
                    /\ r.value = last.value
                    /\ r.source = "memory"
            /\ (MapHas(latest, k) /\ now > latest[k].expiresAt) => ~r.found
    ]_vars

C4_ClearPrefixFrame ==
    [][last'.op = "clearPrefix" =>
        LET p == last'.prefix
        IN  /\ \A k \in CacheKeys :
                IF StartsWith(k, p)
                THEN /\ ~MapHas(memory', k)
                     /\ ~MapHas(disk', getHash(k))
                ELSE /\ MapHas(memory', k) <=> MapHas(memory, k)
                     /\ MapHas(memory, k) => memory'[k] = memory[k]
                     /\ MapHas(disk', getHash(k)) <=> MapHas(disk, getHash(k))
                     /\ MapHas(disk, getHash(k)) =>
                            disk'[getHash(k)] = disk[getHash(k)]
            /\ DOMAIN memory' \subseteq DOMAIN memory
            /\ DOMAIN disk' \subseteq DOMAIN disk
    ]_vars

\* C4 witness: a clearPrefix that removed something and left an entry with
\* another prefix in both tiers.
C4_Witness ==
    /\ last.op = "clearPrefix"
    /\ last.count > 0
    /\ \E k \in CacheKeys :
        /\ ~StartsWith(k, last.prefix)
        /\ MapHas(memory, k)
        /\ MapHas(disk, getHash(k))

\* The logical entries clearPrefix(p) removes: the keys starting with p that
\* a tier holds.
EntriesWithPrefix(mem, dsk, p) ==
    {k \in CacheKeys :
        StartsWith(k, p) /\ (MapHas(mem, k) \/ MapHas(dsk, getHash(k)))}

\* C5: the number clearPrefix(p) returns is the number of cache entries
\* with prefix p that were present and that it removed, an entry held by
\* both tiers being one entry.
C5_CountIsEntriesRemoved ==
    [][last'.op = "clearPrefix" =>
        last'.count =
            Cardinality(EntriesWithPrefix(memory, disk, last'.prefix))
    ]_vars

----------------------------------------------------------------------------
(* GlobalCache with calls in flight.  get, set, del and clearPrefix are    *)
(* async: each runs on the one JavaScript thread up to its next await, and *)
(* the calls of other requests run between an await and what follows it.   *)
(* A call in flight is a record of env.calls that tells the await it is    *)
(* at.  The claims need some history, kept with the calls:                 *)
(*   - latest[k]: the set(k) calls that completed most recently, that is,  *)
(*     those after whose completion no set(k) that has completed started   *)
(*     (set calls that overlapped are all the most recent);                *)
(*   - a get's may: the values of the set(k) calls that had completed      *)
(*     most recently or were in flight at some moment of the get;          *)
(*   - a deletion's raced: the keys a set was in flight for at some        *)
(*     moment of the deletion;                                             *)
(*   - env.cleared: the keys deleted by a del or clearPrefix that          *)
(*     completed, no set of the key having been in flight during the       *)
(*     deletion nor started since;                                         *)
(*   - a get's cleared: the get began with its key in env.cleared, and no  *)
(*     set of the key has started since.                                   *)

MaxCalls == 2

\* One key is enough for calls to overlap on; a prefix it starts with and one
\* it does not.
OverlapKeys == { <<"a", ":", "x">> }

OverlapPrefixes == { <<"a", ":">>, <<"c">> }

OverlapTtls == { 1 }

SetsInFlight(calls, key) == { c \in calls : c.op = "set" /\ c.key = key }

KeysBeingSet(calls) == { c.key : c \in { d \in calls : d.op = "set" } }

\* The values a get(key) that is under way may rightly return.
MayReturn(calls, lat, key) ==
    { c.value : c \in UNION { lat[k] : k \in DOMAIN lat \cap {key} } }
    \cup { c.item.value : c \in SetsInFlight(calls, key) }

\* The calls in flight once a set(key) of value has started.
NoteSet(calls, key, value) ==
    { IF c.op = "get" /\ c.key = key
      THEN [c EXCEPT !.may = @ \cup {value}, !.cleared = FALSE]
      ELSE IF c.op \in {"del", "clearPrefix"}
           THEN [c EXCEPT !.raced = @ \cup {key}]
           ELSE c : c \in calls }

CanStart(call) == call \notin env.calls /\ Cardinality(env.calls) < MaxCalls

Returned(call) == env.calls \ {call}

Moved(call, next) == (env.calls \ {call}) \cup {next}

\* get, lines 25-38: the memory check and existsSync.
GetBegin(key) ==
    LET may == MayReturn(env.calls, latest, key)
        cleared == key \in env.cleared
        call == [op |-> "get", key |-> key, at |-> "readFile", may |-> may,
                 cleared |-> cleared]
    IN  IF MemoryFresh(memory, now, key)
        THEN /\ last' = [op |-> "get", key |-> key, may |-> may,
                         cleared |-> cleared,
                         ret |-> Hit(memory[key], "memory")]
             /\ UNCHANGED <<memory, disk, now, sets, latest, env, home>>
        ELSE /\ memory' = MemoryAfterCheck(memory, now, key)
             /\ IF MapHas(disk, getHash(key))
                THEN /\ CanStart(call)
                     /\ env' = [env EXCEPT !.calls = @ \cup {call}]
                     /\ last' = [op |-> "await", of |-> "get", key |-> key]
                ELSE /\ env' = env
                     /\ last' = [op |-> "get", key |-> key, may |-> may,
                                 cleared |-> cleared, ret |-> Absent]
             /\ UNCHANGED <<disk, now, sets, latest, home>>

\* get, lines 40-41: readFile and JSON.parse.  The file may be gone by now,
\* and while a writeFile of the same file is in progress the text read may
\* be cut short (torn): both throw, and the catch makes get return null.
GetRead(call, torn) ==
    /\ call \in env.calls
    /\ call.op = "get"
    /\ call.at = "readFile"
    /\ torn => SetsInFlight(env.calls, call.key) # {}
    /\ IF MapHas(disk, getHash(call.key)) /\ ~torn
       THEN /\ env' = [env EXCEPT !.calls =
                         Moved(call, [op |-> "get", key |-> call.key,
                                      at |-> "parsed", may |-> call.may,
                                      cleared |-> call.cleared,
                                      item |-> disk[getHash(call.key)]])]
            /\ last' = [op |-> "await", of |-> "get", key |-> call.key]
       ELSE /\ env' = [env EXCEPT !.calls = Returned(call)]
            /\ last' = [op |-> "get", key |-> call.key, may |-> call.may,
                        cleared |-> call.cleared, ret |-> Absent]
    /\ UNCHANGED <<memory, disk, now, sets, latest, home>>

\* get, lines 43-49: the continuation of readFile.  A fresh item is promoted
\* and returned; for an expired one unlink is awaited.
GetParsed(call) ==
    /\ call \in env.calls
    /\ call.op = "get"
    /\ call.at = "parsed"
    /\ IF call.item.expiresAt > now
       THEN /\ memory' = MapPut(memory, call.key, call.item)
            /\ env' = [env EXCEPT !.calls = Returned(call)]
            /\ last' = [op |-> "get", key |-> call.key, may |-> call.may,
                        cleared |-> call.cleared,
                        ret |-> Hit(call.item, "disk")]
       ELSE /\ memory' = memory
            /\ env' = [env EXCEPT !.calls =
                         Moved(call, [op |-> "get", key |-> call.key,
                                      at |-> "unlink", may |-> call.may,
                                      cleared |-> call.cleared])]
            /\ last' = [op |-> "await", of |-> "get", key |-> call.key]
    /\ UNCHANGED <<disk, now, sets, latest, home>>

\* get, lines 48-55: unlink removes the file that is there now (it throws
\* when there is none, which the catch swallows), and get returns null.
GetUnlink(call) ==
    /\ call \in env.calls
    /\ call.op = "get"
    /\ call.at = "unlink"
    /\ disk' = MapDel(disk, getHash(call.key))
    /\ env' = [env EXCEPT !.calls = Returned(call)]
    /\ last' = [op |-> "get", key |-> call.key, may |-> call.may,
                cleared |-> call.cleared, ret |-> Absent]
    /\ UNCHANGED <<memory, now, sets, latest, home>>

\* set, lines 59-69: the item is put in memory and writeFile is started.
SetBegin(key, value, ttlMs) ==
    LET item == CacheItem(now + ttlMs, value, key)
        call == [op |-> "set", key |-> key, at |-> "writeFile",
                 item |-> item, n |-> sets + 1,
                 after |-> UNION { latest[k] : k \in DOMAIN latest \cap {key} }]
    IN  /\ sets < MaxSets
        /\ CanStart(call)
        /\ sets' = sets + 1
        /\ memory' = MapPut(memory, key, item)
        /\ env' = [env EXCEPT
                     !.calls = NoteSet(env.calls, key, value) \cup {call},
                     !.cleared = @ \ {key}]
        /\ last' = [op |-> "await", of |-> "set", key |-> key]
        /\ UNCHANGED <<disk, now, latest, home>>

\* set, lines 69-73: writeFile settles.  A failure is logged and leaves the
\* file as it was; set completes either way.
SetWrite(call, writeOk) ==
    /\ call \in env.calls
    /\ call.op = "set"
    /\ disk' = IF writeOk THEN MapPut(disk, getHash(call.key), call.item)
               ELSE disk
    /\ latest' = MapPut(latest, call.key,
                        (UNION { latest[k] : k \in DOMAIN latest \cap {call.key} }
                            \ call.after)
                        \cup {[n |-> call.n, value |-> call.item.value]})
    /\ env' = [env EXCEPT !.calls = Returned(call)]
    /\ last' = [op |-> "set", key |-> call.key, value |-> call.item.value,
                expiresAt |-> call.item.expiresAt, writeOk |-> writeOk]
    /\ UNCHANGED <<memory, now, sets, home>>

\* The keys a deletion that completes has deleted for good.
Cleared(keys, raced) == keys \ (raced \cup KeysBeingSet(env.calls))

\* del, lines 76-79: the memory item is deleted; unlink is awaited when the
\* file exists.
DelBegin(key) ==
    LET raced == KeysBeingSet(env.calls)
        call == [op |-> "del", key |-> key, at |-> "unlink",
                 raced |-> raced]
    IN  /\ memory' = MapDel(memory, key)
        /\ IF MapHas(disk, getHash(key))
           THEN /\ CanStart(call)
                /\ env' = [env EXCEPT !.calls = @ \cup {call}]
                /\ last' = [op |-> "await", of |-> "del", key |-> key]
           ELSE /\ env' = [env EXCEPT
                            !.cleared = @ \cup Cleared({key}, raced)]
                /\ last' = [op |-> "del", key |-> key]
        /\ UNCHANGED <<disk, now, sets, latest, home>>

\* del, lines 80-82: unlink settles (del rejects when the file has gone in
\* the meantime).
DelUnlink(call) ==
    /\ call \in env.calls
    /\ call.op = "del"
    /\ disk' = MapDel(disk, getHash(call.key))
    /\ env' = [env EXCEPT !.calls = Returned(call),
                          !.cleared = @ \cup Cleared({call.key}, call.raced)]
    /\ last' = [op |-> "del", key |-> call.key]
    /\ UNCHANGED <<memory, now, sets, latest, home>>

\* clearPrefix, lines 85-96: the memory keys are deleted and readdir is
\* awaited.
ClearBegin(prefix) ==
    LET mk == ClearedMemoryKeys(memory, prefix)
        call == [op |-> "clearPrefix", prefix |-> prefix, at |-> "readdir",
                 raced |-> KeysBeingSet(env.calls)]
    IN  /\ CanStart(call)
        /\ memory' = [k \in (DOMAIN memory) \ mk |-> memory[k]]
        /\ env' = [env EXCEPT !.calls = @ \cup {call}]
        /\ last' = [op |-> "await", of |-> "clearPrefix", prefix |-> prefix]
        /\ UNCHANGED <<disk, now, sets, latest, home>>

\* The call, or its completion, once the files left to visit are known.
ClearGoesOn(call, files) ==
    IF files = {}
    THEN [env EXCEPT
            !.calls = Returned(call),
            !.cleared = @ \cup Cleared({ k \in OverlapKeys :
                                           StartsWith(k, call.prefix) },
                                       call.raced)]
    ELSE [env EXCEPT
            !.calls = Moved(call, [op |-> "clearPrefix",
                                   prefix |-> call.prefix,
                                   at |-> "readFile", raced |-> call.raced,
                                   files |-> files])]

ClearDone(call, files) ==
    IF files = {}
    THEN [op |-> "clearPrefix", prefix |-> call.prefix]
    ELSE [op |-> "await", of |-> "clearPrefix", prefix |-> call.prefix]

\* clearPrefix, line 96: readdir lists the files there are now.
ClearReaddir(call) ==
    /\ call \in env.calls
    /\ call.op = "clearPrefix"
    /\ call.at = "readdir"
    /\ env' = ClearGoesOn(call, DOMAIN disk)
    /\ last' = ClearDone(call, DOMAIN disk)
    /\ UNCHANGED <<memory, disk, now, sets, latest, home>>

\* clearPrefix, lines 97-102: readFile and JSON.parse of the next file of
\* the listing.  A file that is gone or torn is skipped by the catch, and so
\* is one whose key does not start with the prefix.
ClearRead(call, file, torn) ==
    /\ call \in env.calls
    /\ call.op = "clearPrefix"
    /\ call.at = "readFile"
    /\ file \in call.files
    /\ torn => \E c \in env.calls : c.op = "set" /\ getHash(c.key) = file
    /\ IF /\ MapHas(disk, file)
          /\ ~torn
          /\ StartsWith(disk[file].key, call.prefix)
       THEN /\ env' = [env EXCEPT !.calls =
                         Moved(call, [op |-> "clearPrefix",
                                      prefix |-> call.prefix,
                                      at |-> "unlink", raced |-> call.raced,
                                      files |-> call.files,
                                      file |-> file])]
            /\ last' = ClearDone(call, call.files)
       ELSE /\ env' = ClearGoesOn(call, call.files \ {file})
            /\ last' = ClearDone(call, call.files \ {file})
    /\ UNCHANGED <<memory, disk, now, sets, latest, home>>

\* clearPrefix, lines 103-109: unlink of the file just read settles.
ClearUnlink(call) ==
    /\ call \in env.calls
    /\ call.op = "clearPrefix"
    /\ call.at = "unlink"
    /\ disk' = MapDel(disk, call.file)
    /\ env' = ClearGoesOn(call, call.files \ {call.file})
    /\ last' = ClearDone(call, call.files \ {call.file})
    /\ UNCHANGED <<memory, now, sets, latest, home>>

\* The process is restarted: the memory tier and the calls in flight are
\* lost, the files stay as they are.
Crash ==
    /\ memory' = EmptyMap
    /\ env' = [env EXCEPT !.calls = {}]
    /\ last' = [op |-> "restart"]
    /\ UNCHANGED <<disk, now, sets, latest, home>>

OverlapInit ==
    /\ memory = EmptyMap
    /\ disk = EmptyMap
    /\ now = 0
    /\ last = NoOp
    /\ sets = 0
    /\ latest = EmptyMap
    /\ env = [world |-> "overlap", calls |-> {}, cleared |-> {}]
    /\ home = NoPage

OverlapNext ==
    \/ \E key \in OverlapKeys : GetBegin(key)
    \/ \E call \in env.calls, torn \in BOOLEAN : GetRead(call, torn)
    \/ \E call \in env.calls : GetParsed(call)
    \/ \E call \in env.calls : GetUnlink(call)
    \/ \E key \in OverlapKeys, value \in CacheValues, ttlMs \in OverlapTtls :
          SetBegin(key, value, ttlMs)
    \/ \E call \in env.calls, writeOk \in BOOLEAN : SetWrite(call, writeOk)
    \/ \E key \in OverlapKeys : DelBegin(key)
    \/ \E call \in env.calls : DelUnlink(call)
    \/ \E prefix \in OverlapPrefixes : ClearBegin(prefix)
    \/ \E call \in env.calls : ClearReaddir(call)
    \/ \E call \in env.calls, file \in DOMAIN disk, torn \in BOOLEAN :
          ClearRead(call, file, torn)
    \/ \E call \in env.calls : ClearUnlink(call)
    \/ Crash
    \/ Tick

SpecOverlap == OverlapInit /\ [][OverlapNext]_vars

\* C31: what get(k) returns, when it returns a value, is the value of the
\* most recently completed set(k).  The statement is taken with the latitude
\* overlapping calls need: the value may also be that of a set(k) that was
\* in flight, or was the most recently completed one, at some moment of the
\* get.
C31_GetReturnsLatestSet ==
    (IsGet(last) /\ last.ret.found) => last.ret.value \in last.may

\* C32: once a del(k), or a clearPrefix(p) with k starting with p, has
\* completed, no set(k) having been in flight during it nor started since,
\* a get(k) that begins then returns absent.
C32_AbsentAfterDeletion ==
    (IsGet(last) /\ last.cleared) => ~last.ret.found

----------------------------------------------------------------------------
(* The setlist union handler: GET /api/setlist/latest?mbid=..&limit=..     *)
(* A setlist of the upstream service is                                    *)
(*   [id, eventDate, sets, artist]                                         *)
(* where eventDate is the text the service gives ("01-06-2026"), and sets  *)
(* is sets.set[].song[].name: a sequence of sets, each a sequence of       *)
(* names.                                                                  *)
(* A page of the upstream service is [ok, setlist, total, itemsPerPage].   *)

\* 24 * 60 * 60 * 1000 ms.  The time-to-live values of the handlers are
\* counted in seconds: 30 days in milliseconds is beyond the 32-bit integers
\* of the model checker.
TTL_UNION == 24 * 60 * 60

maxPages == 5

IGNORE_SONGS ==
    { <<"i", "n", "t", "r", "o">>,
      <<"o", "u", "t", "r", "o">>,
      <<"i", "n", "t", "e", "r", "l", "u", "d", "e">>,
      <<"t", "a", "p", "e">>,
      <<"u", "n", "k", "n", "o", "w", "n">> }

\* normalize of the union handler
UnionNormalize_NoParens(name) ==
    Trim(CollapseSpaces(SlashToSpace(name)))

UnionNormalize(name) ==
    Trim(CollapseSpaces(SlashToSpace(StripParens(name))))

getDedupeKey(name) == ToLowerCase(UnionNormalize(name))

\* limit: 5 unless the parameter is a non-empty text that parseInt reads as
\* a number, which is clamped to 1..5.  limitParam is the text of the
\* parameter, << >> when it is not given or empty.
Min(a, b) == IF a < b THEN a ELSE b

Max(a, b) == IF a > b THEN a ELSE b

EffectiveLimit(limitParam) ==
    IF limitParam # << >> /\ ~ParseInt(limitParam).nan
    THEN Min(Max(ParseInt(limitParam).n, 1), 5)
    ELSE 5

\* `setlist:union:${mbid}:${limit}`
UnionCacheKey(mbid, limit) ==
    <<"setlist:", "union:", mbid, ":", Digits[limit + 1]>>

\* hasSongs: some set has a non-empty song array.
HasSongs(setlist) == \E i \in 1..Len(setlist.sets) : Len(setlist.sets[i]) > 0

DateInWindow_AnyYear(setlist, currentYear) ==
    Len(Split(setlist.eventDate, <<"-">>)) = 3

\* The date filter: three parts between "-", the third read by parseInt as
\* the current or the previous year.
DateInWindow(setlist, currentYear) ==
    LET parts == Split(setlist.eventDate, <<"-">>)
    IN  /\ Len(parts) = 3
        /\ LET year == ParseInt(parts[3])
           IN  \/ year = Number(currentYear)
               \/ year = Number(currentYear - 1)

\* The for loop with the date tested before the songs.
RECURSIVE ScanSetlists_DateFirst(_, _, _, _, _)
ScanSetlists_DateFirst(setlists, i, limit, currentYear, acc) ==
    IF i > Len(setlists) THEN acc
    ELSE LET sl == setlists[i]
             counted == [acc EXCEPT !.setlistsScanned = @ + 1]
             acc1 == IF DateInWindow(sl, currentYear)
                     THEN IF HasSongs(sl)
                          THEN [counted EXCEPT !.valid = Append(@, sl)]
                          ELSE [counted EXCEPT !.skippedEmpty = @ + 1]
                     ELSE [counted EXCEPT !.skippedOld = @ + 1]
         IN  IF Len(acc1.valid) >= limit THEN acc1
             ELSE ScanSetlists_DateFirst(setlists, i + 1, limit, currentYear,
                                         acc1)

\* The for loop counting a setlist as scanned at the end of its iteration,
\* after the break.
RECURSIVE ScanSetlists_CountsAfterBreak(_, _, _, _, _)
ScanSetlists_CountsAfterBreak(setlists, i, limit, currentYear, acc) ==
    IF i > Len(setlists) THEN acc
    ELSE LET sl == setlists[i]
             acc1 == IF HasSongs(sl)
                     THEN IF DateInWindow(sl, currentYear)
                          THEN [acc EXCEPT !.valid = Append(@, sl)]
                          ELSE [acc EXCEPT !.skippedOld = @ + 1]
                     ELSE [acc EXCEPT !.skippedEmpty = @ + 1]
         IN  IF Len(acc1.valid) >= limit THEN acc1
             ELSE ScanSetlists_CountsAfterBreak(setlists, i + 1, limit,
                    currentYear, [acc1 EXCEPT !.setlistsScanned = @ + 1])

\* The for loop over one page's setlists, from index i; it breaks once
\* limit setlists are valid.
RECURSIVE ScanSetlists(_, _, _, _, _)
ScanSetlists(setlists, i, limit, currentYear, acc) ==
    IF i > Len(setlists) THEN acc
    ELSE LET sl == setlists[i]
             counted == [acc EXCEPT !.setlistsScanned = @ + 1]
             acc1 == IF HasSongs(sl)
                     THEN IF DateInWindow(sl, currentYear)
                          THEN [counted EXCEPT !.valid = Append(@, sl)]
                          ELSE [counted EXCEPT !.skippedOld = @ + 1]
                     ELSE [counted EXCEPT !.skippedEmpty = @ + 1]
         IN  IF Len(acc1.valid) >= limit THEN acc1
             ELSE ScanSetlists(setlists, i + 1, limit, currentYear, acc1)

\* The answer of the upstream service for page p: a page past the last one
\* is a non-success response.
PageResponse(pages, p) ==
    IF p \in 1..Len(pages) THEN pages[p]
    ELSE [ok |-> FALSE, setlist |-> << >>, total |-> 0, itemsPerPage |-> 0]

\* The while loop without its page-count bound.
RECURSIVE FetchPages_NoBound(_, _, _, _, _)
FetchPages_NoBound(pages, page, limit, currentYear, acc) ==
    IF ~(Len(acc.valid) < limit) THEN acc
    ELSE LET res == PageResponse(pages, page)
             asked == [acc EXCEPT !.fetched = Append(@, page)]
         IN  IF ~res.ok THEN asked
             ELSE IF Len(res.setlist) = 0 THEN asked
             ELSE LET acc1 == ScanSetlists(res.setlist, 1, limit,
                                           currentYear, asked)
                      itemsPerPage ==
                          IF res.itemsPerPage = 0 THEN 20
                          ELSE res.itemsPerPage
                  IN  IF page * itemsPerPage >= res.total THEN acc1
                      ELSE FetchPages_NoBound(pages, page + 1, limit,
                                              currentYear, acc1)

\* The while loop over the pages, from page `page`.
RECURSIVE FetchPages(_, _, _, _, _)
FetchPages(pages, page, limit, currentYear, acc) ==
    IF ~(Len(acc.valid) < limit /\ page <= maxPages) THEN acc
    ELSE LET res == PageResponse(pages, page)
             asked == [acc EXCEPT !.fetched = Append(@, page)]
         IN  IF ~res.ok THEN asked
             ELSE IF Len(res.setlist) = 0 THEN asked
             ELSE LET acc1 == ScanSetlists(res.setlist, 1, limit,
                                           currentYear, asked)
                      total == res.total
                      itemsPerPage ==
                          IF res.itemsPerPage = 0 THEN 20
                          ELSE res.itemsPerPage
                  IN  IF page * itemsPerPage >= total THEN acc1
                      ELSE FetchPages(pages, page + 1, limit, currentYear,
                                      acc1)

ScanStart ==
    [valid |-> << >>, setlistsScanned |-> 0, skippedEmpty |-> 0,
     skippedOld |-> 0, fetched |-> << >>]

\* rawSongs: the names of a setlist's songs, set after set, the song items
\* without a name left out.
RECURSIVE Flatten(_)
Flatten(seqs) ==
    IF seqs = << >> THEN << >> ELSE Head(seqs) \o Flatten(Tail(seqs))

RawSongs(setlist) == SelectSeq(Flatten(setlist.sets), LAMBDA n : n # << >>)

\* The loop over one setlist's raw songs.  acc is
\* [seenKeys, unionSongs, setlistSongCount].
RECURSIVE UnionLoop_NoStoplist(_, _)
UnionLoop_NoStoplist(rawSongs, acc) ==
    IF rawSongs = << >> THEN acc
    ELSE LET songName == Head(rawSongs)
             key == getDedupeKey(songName)
         IN  IF key = << >>
             THEN UnionLoop_NoStoplist(Tail(rawSongs), acc)
             ELSE UnionLoop_NoStoplist(Tail(rawSongs),
                    [seenKeys |-> acc.seenKeys \cup {key},
                     unionSongs |->
                        IF key \notin acc.seenKeys
                        THEN Append(acc.unionSongs, UnionNormalize(songName))
                        ELSE acc.unionSongs,
                     setlistSongCount |-> acc.setlistSongCount + 1])

RECURSIVE UnionLoop(_, _)
UnionLoop(rawSongs, acc) ==
    IF rawSongs = << >> THEN acc
    ELSE LET songName == Head(rawSongs)
             key == getDedupeKey(songName)
         IN  IF key = << >> \/ key \in IGNORE_SONGS
             THEN UnionLoop(Tail(rawSongs), acc)
             ELSE UnionLoop(Tail(rawSongs),
                    [seenKeys |-> acc.seenKeys \cup {key},
                     unionSongs |->
                        IF key \notin acc.seenKeys
                        THEN Append(acc.unionSongs, UnionNormalize(songName))
                        ELSE acc.unionSongs,
                     setlistSongCount |-> acc.setlistSongCount + 1])

\* The loop over the used setlists.  acc is [seenKeys, unionSongs, sources].
RECURSIVE UnionSetlists(_, _)
UnionSetlists(usedSetlists, acc) ==
    IF usedSetlists = << >> THEN acc
    ELSE LET setlist == Head(usedSetlists)
             r == UnionLoop(RawSongs(setlist),
                            [seenKeys |-> acc.seenKeys,
                             unionSongs |-> acc.unionSongs,
                             setlistSongCount |-> 0])
         IN  UnionSetlists(Tail(usedSetlists),
                [seenKeys |-> r.seenKeys,
                 unionSongs |-> r.unionSongs,
                 sources |-> Append(acc.sources,
                    [id |-> setlist.id, eventDate |-> setlist.eventDate,
                     songCount |-> r.setlistSongCount])])

\* The body the handler computes from the scan: emptyResult when no setlist
\* is used, finalResult otherwise.
UnionResult(mbid, scan) ==
    LET u == UnionSetlists(scan.valid,
                [seenKeys |-> {}, unionSongs |-> << >>, sources |-> << >>])
        stats(used, songs) ==
            [setlistsUsed |-> used, totalUnionSongs |-> songs,
             setlistsScanned |-> scan.setlistsScanned,
             skippedEmpty |-> scan.skippedEmpty,
             skippedOld |-> scan.skippedOld]
    IN  IF Len(scan.valid) = 0
        THEN [artist |-> [name |-> "Unknown", mbid |-> mbid],
              sources |-> << >>, songs |-> << >>, stats |-> stats(0, 0)]
        ELSE [artist |-> scan.valid[1].artist,
              sources |-> u.sources, songs |-> u.unionSongs,
              stats |-> stats(Len(u.sources), Len(u.unionSongs))]

\* The JSON responses, with what the claims need to know of the run: the
\* time of the request, the setlists used and the pages asked of the
\* upstream service.
UnionResponse(request, body, cached, cacheSource, scan) ==
    [op |-> request.op, mbid |-> request.mbid, limit |-> request.limit,
     cacheKey |-> request.cacheKey, at |-> request.at, status |-> 200,
     body |-> body, cached |-> cached, cacheSource |-> cacheSource,
     used |-> scan.valid, fetched |-> scan.fetched]

ErrorResponse(request, status) ==
    [op |-> request.op, mbid |-> request.mbid, limit |-> request.limit,
     cacheKey |-> request.cacheKey, at |-> request.at, status |-> status]

\* The handler.  The request is mbid and limitParam; env holds the upstream
\* pages per mbid, the calendar year and whether SETLISTFM_API_KEY is set.
\* last records the response.
UnionGET(mbid, limitParam, writeOk) ==
    LET limit == EffectiveLimit(limitParam)
        cacheKey == UnionCacheKey(mbid, limit)
        got == CacheGet(memory, disk, now, cacheKey)
        scan == FetchPages(env.pages[mbid], 1, limit, env.currentYear,
                           ScanStart)
        body == UnionResult(mbid, scan)
        put == CacheSet(got.memory, got.disk, now, cacheKey, body,
                        TTL_UNION, writeOk)
        request == [op |-> "union", mbid |-> mbid, limit |-> limit,
                    cacheKey |-> cacheKey, at |-> now]
        live == UnionResponse(request, body, FALSE, "live", scan)
    IN  IF got.ret.found
        THEN /\ memory' = got.memory
             /\ disk' = got.disk
             /\ last' = UnionResponse(request, got.ret.value, TRUE,
                                      got.ret.source, ScanStart)
             /\ UNCHANGED <<now, sets, latest, env, home>>
        ELSE IF ~env.apiKey
        THEN /\ memory' = got.memory
             /\ disk' = got.disk
             /\ last' = ErrorResponse(request, 500)
             /\ UNCHANGED <<now, sets, latest, env, home>>
        ELSE IF Len(scan.valid) = 0
        THEN /\ memory' = got.memory
             /\ disk' = got.disk
             /\ last' = live
             /\ UNCHANGED <<now, sets, latest, env, home>>
        ELSE /\ sets < MaxSets
             /\ sets' = sets + 1
             /\ memory' = put.memory
             /\ disk' = put.disk
             /\ latest' = MapPut(latest, cacheKey,
                                 [expiresAt |-> now + TTL_UNION])
             /\ last' = live
             /\ UNCHANGED <<now, env, home>>

\* The file of key k does not hold the given item: the write of the item
\* failed, or the file has been removed since.
NotOnDisk(dsk, k, item) ==
    ~MapHas(dsk, getHash(k)) \/ dsk[getHash(k)] # item

\* C16: a set(k, v, ttl) completes whether or not its durable write fails
\* and leaves (v, expiresAt) in memory; a get(k) before expiresAt of an item
\* that memory holds and the disk does not (the write failed) has returned v
\* with source "memory".
C16_SetSurvivesWriteFailure ==
    /\ last.op = "set" =>
          /\ MapHas(memory, last.key)
          /\ memory[last.key] =
                CacheItem(last.expiresAt, last.value, last.key)
          /\ last.expiresAt > now
    /\ (/\ IsGet(last)
        /\ MapHas(memory, last.key)
        /\ NotOnDisk(disk, last.key, memory[last.key])
        /\ now < memory[last.key].expiresAt) =>
          /\ last.ret.found
          /\ last.ret.value = memory[last.key].value
          /\ last.ret.expiresAt = memory[last.key].expiresAt
          /\ last.ret.source = "memory"

\* C16 witness: the clock has moved since a set whose write failed on an
\* empty disk, and a get before expiry returned the value from memory.
C16_Witness ==
    /\ IsGet(last)
    /\ last.ret.found
    /\ last.ret.source = "memory"
    /\ now > 0
    /\ now < last.ret.expiresAt
    /\ ~MapHas(disk, getHash(last.key))
    /\ MapHas(latest, last.key)
    /\ latest[last.key].expiresAt = last.ret.expiresAt

----------------------------------------------------------------------------
(* The union handler on setlists with many titles: one upstream page of    *)
(* two setlists, whose songs are any sequence of at most MaxSongs raw      *)
(* titles of the pool, cut in two at any place.                            *)

MaxSongs == 3

BaseYear == 2026

T_MyWay == <<"M", "y", " ", "W", "a", "y">>

T_MyWayLive ==
    <<"M", "Y", "/", " ", "\t", "w", "a", "y", " ", "(", "L", "i", "v", "e", ")">>

T_One == <<"O", "n", "e">>

T_IntroAside == <<"I", "n", "t", "r", "o", " ", "(", "x", ")">>

T_OnlyAside == <<" ", "(", "J", "a", "m", ")">>

TitlePool ==
    { T_MyWay, T_MyWayLive, T_One, T_IntroAside, T_OnlyAside }

SongLists == UNION { [1..n -> TitlePool] : n \in 0..MaxSongs }

Artist1 == [name |-> "Metallica", mbid |-> "m1"]

\* The text of a number of four digits, and of a date.
YearText(year) ==
    <<Digits[(year \div 1000) + 1], Digits[((year \div 100) % 10) + 1],
      Digits[((year \div 10) % 10) + 1], Digits[(year % 10) + 1]>>

DateText(dayMonth, year) == dayMonth \o YearText(year)

D_0106 == <<"0", "1", "-", "0", "6", "-">>

D_2412 == <<"2", "4", "-", "1", "2", "-">>

Setlist(id, eventDate, songSets) ==
    [id |-> id, eventDate |-> eventDate, sets |-> songSets,
     artist |-> Artist1]

UnionWorlds ==
    { [world |-> "union",
       apiKey |-> TRUE,
       currentYear |-> BaseYear,
       pages |-> [m \in {"m1"} |->
          << [ok |-> TRUE, total |-> 2, itemsPerPage |-> 20,
              setlist |->
                << Setlist("s1", DateText(D_0106, year),
                           << SubSeq(all, 1, Min(cut, Len(all))) >>),
                   Setlist("s2", DateText(D_2412, BaseYear - 1),
                           << << >>,
                              SubSeq(all, Min(cut, Len(all)) + 1,
                                     Len(all)) >>) >>]
          >>]]
      : all \in SongLists, cut \in 0..MaxSongs,
        year \in {BaseYear, BaseYear - 2} }

UnionInit ==
    /\ memory = EmptyMap
    /\ disk = EmptyMap
    /\ now = 0
    /\ last = NoOp
    /\ sets = 0
    /\ latest = EmptyMap
    /\ env \in UnionWorlds
    /\ home = NoPage

UnionLimitParams ==
    { << >>, <<"1">> }

UnionNext ==
    \E limitParam \in UnionLimitParams :
        UnionGET("m1", limitParam, TRUE)

SpecUnion == UnionInit /\ [][UnionNext]_vars

----------------------------------------------------------------------------
(* Claims about the union handler, checked under SpecUnion.                *)

\* The dedupe key as the specification words it: the title without its
\* parenthetical asides, "/" read as a space, runs of white space collapsed,
\* trimmed, in lower case.
TitleNormalForm(title) ==
    Trim(CollapseSpaces(SlashToSpace(StripParens(title))))

DedupeKeyOf(title) == ToLowerCase(TitleNormalForm(title))

Stoplist ==
    { <<"i", "n", "t", "r", "o">>, <<"o", "u", "t", "r", "o">>,
      <<"i", "n", "t", "e", "r", "l", "u", "d", "e">>,
      <<"t", "a", "p", "e">>, <<"u", "n", "k", "n", "o", "w", "n">> }

IsAggregated(l) == l.op = "union" /\ l.status = 200

\* The songs of an AggregatedSetlist have pairwise distinct dedupe keys, none
\* empty and none in the stoplist.
Deduplicated(songs) ==
    LET keys == [i \in 1..Len(songs) |-> DedupeKeyOf(songs[i])]
    IN  /\ \A i, j \in 1..Len(songs) : i # j => keys[i] # keys[j]
        /\ \A i \in 1..Len(songs) :
                keys[i] # << >> /\ keys[i] \notin Stoplist

\* C6: dedup invariant.  In every AggregatedSetlist the handler returns, and
\* in every one the cache holds, the dedupe keys of the songs are pairwise
\* distinct, none is empty and none is in the stoplist.
C6_DedupInvariant ==
    /\ IsAggregated(last) => Deduplicated(last.body.songs)
    /\ \A k \in DOMAIN memory : Deduplicated(memory[k].value.songs)
    /\ \A f \in DOMAIN disk : Deduplicated(disk[f].value.songs)

\* The titles a sequence of setlists lists, in arrival order.
RECURSIVE ListedTitles(_)
ListedTitles(setlists) ==
    IF setlists = << >> THEN << >>
    ELSE Flatten(Head(setlists).sets) \o ListedTitles(Tail(setlists))

\* C6 witness: a live response with songs, computed from setlists that list
\* a stoplisted title and more eligible titles than there are songs.
C6_Witness ==
    /\ IsAggregated(last)
    /\ ~last.cached
    /\ Len(last.body.songs) >= 1
    /\ LET listed == ListedTitles(last.used)
           keys == [i \in 1..Len(listed) |-> DedupeKeyOf(listed[i])]
       IN  /\ \E i \in 1..Len(listed) : keys[i] \in Stoplist
           /\ \E i, j \in 1..Len(listed) :
                /\ i # j
                /\ listed[i] # listed[j]
                /\ keys[i] = keys[j]
                /\ keys[i] \notin Stoplist \cup {<< >>}
    /\ MapHas(memory, last.cacheKey)

\* The normal forms of the titles of `listed` whose dedupe key is in
\* `eligible` and occurs there for the first time, in the order listed.
FirstSeen(listed, eligible) ==
    LET keys == [i \in 1..Len(listed) |-> DedupeKeyOf(listed[i])]
        first == {i \in 1..Len(listed) :
                    /\ keys[i] \in eligible
                    /\ \A j \in 1..(i - 1) : keys[j] # keys[i]}
        indices == SelectSeq([i \in 1..Len(listed) |-> i],
                             LAMBDA i : i \in first)
    IN  [n \in 1..Len(indices) |-> TitleNormalForm(listed[indices[n]])]

KeysOf(listed) == {DedupeKeyOf(listed[i]) : i \in 1..Len(listed)}

\* C7, as claimed: songs is the normal forms of the first occurrence of each
\* distinct dedupe key of the used setlists, and stats.setlistsUsed is the
\* number of setlists used.  (A title whose normal form is empty is read as
\* having no dedupe key.)
C7_FirstSeenOfEveryKey ==
    (IsAggregated(last) /\ ~last.cached) =>
        LET listed == ListedTitles(last.used)
        IN  /\ last.body.songs = FirstSeen(listed, KeysOf(listed) \ {<< >>})
            /\ last.body.stats.setlistsUsed = Len(last.used)

\* C7, amended: songs is the normal forms of the first occurrence of each
\* distinct dedupe key that is not empty and not in the stoplist, in the
\* order the used setlists list them; titles that differ in letter case or
\* by a parenthetical aside give one entry; stats.setlistsUsed is the number
\* of setlists used.
C7_FirstSeenOfEligibleKeys ==
    (IsAggregated(last) /\ ~last.cached) =>
        LET listed == ListedTitles(last.used)
        IN  /\ last.body.songs =
                  FirstSeen(listed, KeysOf(listed) \ (Stoplist \cup {<< >>}))
            /\ last.body.stats.setlistsUsed = Len(last.used)
            /\ Len(last.body.sources) = Len(last.used)

\* C7 witness: two setlists were used, the first listing "MY/ way (Live)"
\* and the second "My Way" and "One"; the songs are the first one's normal
\* form, "MY way", then "One".
C7_Witness ==
    /\ IsAggregated(last)
    /\ ~last.cached
    /\ Len(last.used) = 2
    /\ ListedTitles(last.used) =
          <<T_MyWayLive, T_MyWay, T_One>>
    /\ last.body.songs = << <<"M", "Y", " ", "w", "a", "y">>, T_One >>
    /\ last.body.stats.setlistsUsed = 2

\* The year of an event date split as day-month-year; 0 when the date has
\* not three parts or the third does not begin with a number.
EventYear(eventDate) ==
    LET parts == Split(eventDate, <<"-">>)
    IN  IF Len(parts) = 3 /\ ~ParseInt(parts[3]).nan
        THEN ParseInt(parts[3]).n
        ELSE 0

\* The performances of the artist's pages that qualify: some set lists a
\* song, and the event is of the current or the previous calendar year.
QualifyingPerformances(mbid) ==
    UNION { { <<p, i>> : i \in
                { i \in 1..Len(env.pages[mbid][p].setlist) :
                    LET sl == env.pages[mbid][p].setlist[i]
                    IN  /\ \E k \in 1..Len(sl.sets) : sl.sets[k] # << >>
                        /\ EventYear(sl.eventDate) \in
                              {env.currentYear - 1, env.currentYear} } } :
            p \in 1..Len(env.pages[mbid]) }

----------------------------------------------------------------------------------------------------------------------------------------
(* The union handler on an upstream service of several pages: up to one    *)
(* page more than the handler's page bound, each holding a few             *)
(* performances, followed by an empty page or by nothing (a request past   *)
(* the last page fails).  total and itemsPerPage are the same on all pages *)
(* (0 stands for a property that is not given).                            *)

UpstreamPages == maxPages + 1

Good(year) == Setlist("g", DateText(D_0106, year), << <<T_One>> >>)

NoSongs(year) == Setlist("e", DateText(D_0106, year), << << >> >>)

\* Performances with songs whose eventDate is not of the day-month-year
\* shape: the year alone, and year-month-day.
YearOnly == Setlist("u", YearText(BaseYear), << <<T_One>> >>)

YearFirst ==
    Setlist("i", YearText(BaseYear) \o <<"-", "0", "6", "-", "0", "1">>,
            << <<T_One>> >>)

PageOf(setlists, total, itemsPerPage) ==
    [ok |-> TRUE, setlist |-> setlists, total |-> total,
     itemsPerPage |-> itemsPerPage]

PageKinds(total, itemsPerPage) ==
    { PageOf(<<Good(BaseYear), NoSongs(BaseYear - 2), Good(BaseYear - 1)>>,
             total, itemsPerPage),
      PageOf(<<Good(BaseYear - 2), YearOnly, NoSongs(BaseYear), YearFirst>>,
             total, itemsPerPage) }

PagingMetadata == { <<0, 0>>, <<4, 1>>, <<200, 0>> }

PageLists(total, itemsPerPage) ==
    UNION { { pages \o tail :
                pages \in [1..n -> PageKinds(total, itemsPerPage)],
                tail \in IF n = UpstreamPages THEN { << >> }
                         ELSE { << >>,
                                <<PageOf(<< >>, total, itemsPerPage)>> } } :
            n \in 0..UpstreamPages }

PagingWorlds ==
    { [world |-> "paging",
       apiKey |-> TRUE,
       currentYear |-> BaseYear,
       pages |-> [m \in {"m1"} |-> pages]]
      : pages \in UNION { PageLists(md[1], md[2]) : md \in PagingMetadata } }

PagingInit ==
    /\ memory = EmptyMap
    /\ disk = EmptyMap
    /\ now = 0
    /\ last = NoOp
    /\ sets = 0
    /\ latest = EmptyMap
    /\ env \in PagingWorlds
    /\ home = NoPage

PagingLimitParams ==
    { << >>, <<"a">>, <<"0">>, <<"2">>, <<"9">> }

PagingNext ==
    \E limitParam \in PagingLimitParams :
        UnionGET("m1", limitParam, TRUE)

SpecPaging == PagingInit /\ [][PagingNext]_vars

\* The qualifying performances of the pages 1..p of the upstream service.
QualifyingUpTo(mbid, p) ==
    { q \in QualifyingPerformances(mbid) : q[1] <= p }

\* Page p of the upstream service lets the pagination go on: the response is
\* a success, lists a performance, and page * itemsPerPage < total.
GoesOn(mbid, p) ==
    LET res == PageResponse(env.pages[mbid], p)
    IN  /\ res.ok
        /\ res.setlist # << >>
        /\ p * (IF res.itemsPerPage = 0 THEN 20 ELSE res.itemsPerPage)
              < res.total

\* C21: an aggregation terminates having requested the pages 1, 2, .., n in
\* this order with n <= 5; no page is requested after a page that failed,
\* was empty, satisfied page * itemsPerPage >= total, or completed `limit`
\* qualifying performances; the result has at most `limit` sources, and
\* limit is within 1..5.
C21_PaginationBounded ==
    (last.op = "union" /\ last.status = 200) =>
        LET n == Len(last.fetched)
        IN  /\ last.limit \in 1..5
            /\ n <= 5
            /\ \A i \in 1..n : last.fetched[i] = i
            /\ \A i \in 1..(n - 1) :
                  /\ GoesOn(last.mbid, i)
                  /\ Cardinality(QualifyingUpTo(last.mbid, i)) < last.limit
            /\ Len(last.body.sources) <= last.limit
            /\ Len(last.used) <= last.limit

\* C21 witness: the five pages were requested, each listing performances
\* none of which qualifies, the sixth page of the upstream service being
\* there to be asked; the answer has no source.
C21_Witness ==
    /\ last.op = "union"
    /\ last.status = 200
    /\ ~last.cached
    /\ last.fetched = <<1, 2, 3, 4, 5>>
    /\ GoesOn(last.mbid, 5)
    /\ Len(env.pages[last.mbid]) = 6
    /\ env.pages[last.mbid][6].setlist # << >>
    /\ last.body.sources = << >>
    /\ last.body.stats.setlistsScanned = 20

\* The performances listed by the pages asked, page after page.
RECURSIVE ListedOn(_, _)
ListedOn(pages, fetched) ==
    IF fetched = << >> THEN << >>
    ELSE PageResponse(pages, Head(fetched)).setlist
         \o ListedOn(pages, Tail(fetched))

\* The performances a live aggregation visited: the first setlistsScanned
\* of the performances listed by the pages it asked.
Visited(l) ==
    SubSeq(ListedOn(env.pages[l.mbid], l.fetched), 1,
           l.body.stats.setlistsScanned)

ListsSongs(sl) == \E k \in 1..Len(sl.sets) : sl.sets[k] # << >>

InYearWindow(sl) ==
    EventYear(sl.eventDate) \in {env.currentYear - 1, env.currentYear}

\* C22: a visited performance is used if and only if some set of it lists a
\* song and the year of its event date, split as day-month-year, is the
\* current or the previous calendar year; skippedOld counts the visited
\* performances with songs whose date has no such year, skippedEmpty those
\* without songs whatever their date; the answer is a success.  The visit
\* leaves out a listed performance only once `limit` performances are used.
C22_UsedIffSongsAndRecent ==
    last.op = "union" =>
        /\ last.status = 200
        /\ ~last.cached =>
              LET visited == Visited(last)
                  listed == ListedOn(env.pages[last.mbid], last.fetched)
              IN  /\ last.used =
                        SelectSeq(visited,
                            LAMBDA sl : ListsSongs(sl) /\ InYearWindow(sl))
                  /\ last.body.stats.skippedOld =
                        Len(SelectSeq(visited,
                            LAMBDA sl : ListsSongs(sl) /\ ~InYearWindow(sl)))
                  /\ last.body.stats.skippedEmpty =
                        Len(SelectSeq(visited,
                            LAMBDA sl : ~ListsSongs(sl)))
                  /\ \/ Len(visited) = Len(listed)
                     \/ Len(last.used) = last.limit

\* C22 witness: seven performances were visited on two pages; the two with
\* songs dated this year and last year are used, the three with songs dated
\* two years back, by the year alone and year first are tallied as old, and
\* the two without songs, one dated this year, as empty.
C22_Witness ==
    /\ last.op = "union"
    /\ last.status = 200
    /\ ~last.cached
    /\ last.fetched = <<1, 2>>
    /\ Visited(last) =
          <<Good(BaseYear - 2), YearOnly, NoSongs(BaseYear), YearFirst,
            Good(BaseYear), NoSongs(BaseYear - 2), Good(BaseYear - 1)>>
    /\ last.used = <<Good(BaseYear), Good(BaseYear - 1)>>
    /\ last.body.stats.skippedOld = 3
    /\ last.body.stats.skippedEmpty = 2

----------------------------------------------------------------------------
(* The union handler asked for two artists with and without a limit, over  *)
(* a day and more: the first artist has two qualifying performances, the   *)
(* second has one, has none, or its first page fails.  The process may     *)
(* start again and the writes of the cache may fail.                       *)

Artist2 == [name |-> "Zoe", mbid |-> "m2"]

Performance(id, artist, year, songs) ==
    [id |-> id, eventDate |-> DateText(D_0106, year), sets |-> <<songs>>,
     artist |-> artist]

AggregatePages2 ==
    { << PageOf(<<Performance("b1", Artist2, BaseYear, <<T_MyWay>>)>>, 1, 20) >>,
      << PageOf(<<Performance("b0", Artist2, BaseYear - 2, <<T_MyWay>>)>>,
                1, 20) >>,
      << >> }

AggregateWorlds ==
    { [world |-> "aggregate",
       apiKey |-> TRUE,
       currentYear |-> BaseYear,
       pages |-> [m \in {"m1", "m2"} |->
          IF m = "m1"
          THEN << PageOf(<<Performance("a1", Artist1, BaseYear, <<T_One>>),
                           Performance("a2", Artist1, BaseYear - 1,
                                       <<T_MyWay>>)>>, 2, 20) >>
          ELSE pages2]]
      : pages2 \in AggregatePages2 }

AggregateInit ==
    /\ memory = EmptyMap
    /\ disk = EmptyMap
    /\ now = 0
    /\ last = NoOp
    /\ sets = 0
    /\ latest = EmptyMap
    /\ env \in AggregateWorlds
    /\ home = NoPage

\* Half of the time-to-live passes; the last response stays on record.
HalfDay ==
    /\ now < MaxTime * (TTL_UNION \div 2)
    /\ now' = now + (TTL_UNION \div 2)
    /\ UNCHANGED <<memory, disk, last, sets, latest, env, home>>

AggregateNext ==
    \/ \E mbid \in {"m1", "m2"}, limitParam \in UnionLimitParams,
          writeOk \in BOOLEAN : UnionGET(mbid, limitParam, writeOk)
    \/ HalfDay
    \/ Restart

SpecAggregate == AggregateInit /\ [][AggregateNext]_vars

\* The ids of the performances the upstream service lists for an artist.
ListedIds(mbid) ==
    UNION { { env.pages[mbid][p].setlist[i].id :
                i \in 1..Len(env.pages[mbid][p].setlist) } :
            p \in 1..Len(env.pages[mbid]) }

\* The end of the time-to-live of the result a response carries: of the
\* entry it was read from, or counted from the request that computed it.
Deadline(l) ==
    IF l.cached THEN memory[l.cacheKey].expiresAt ELSE l.at + TTL_UNION

\* C24: when a result was returned for (canonicalId, limit) and the request
\* that follows within the time-to-live is for the same (canonicalId, limit),
\* it is answered from the cache, with the same sources, songs and stats and
\* no page asked of the upstream service; an answer from the cache carries
\* the performances of the artist asked for only, and no more sources than
\* the limit asked for.
C24_ServedFromCacheWithinTtl ==
    [][ /\ (/\ last.op = "union" /\ last.status = 200
            /\ last'.op = "union"
            /\ last'.mbid = last.mbid /\ last'.limit = last.limit
            /\ now' = now
            /\ now < Deadline(last)) =>
               /\ last'.status = 200
               /\ last'.cached
               /\ last'.fetched = << >>
               /\ last'.body.sources = last.body.sources
               /\ last'.body.songs = last.body.songs
               /\ last'.body.stats = last.body.stats
        /\ (last'.op = "union" /\ last'.status = 200 /\ last'.cached) =>
               /\ \A i \in 1..Len(last'.body.sources) :
                     last'.body.sources[i].id \in ListedIds(last'.mbid)
               /\ Len(last'.body.sources) <= last'.limit
      ]_vars

----------------------------------------------------------------------------
(* The catalog handler: GET /api/spotify/search?artist=..&track=..         *)
(* A track of the upstream service is [name, artists, id, popularity],     *)
(* artists being the sequence of the artists' names.  Scores and           *)
(* confidences are in thousandths: 1.0 is 1000, the threshold 0.5 is 500,  *)
(* the noise penalty 0.4 is 400 and popularity / 100 * 0.1 is popularity.  *)
(* On the values the handler can compute (similarity 0, 0.8 or 1.0, the    *)
(* penalty or not, popularity 0..100) the double-precision results compare *)
(* with each other and with 0.5 as these integers do.                      *)

\* 30 * 24 * 60 * 60 * 1000 ms, in seconds as TTL_UNION.
TTL_RESOLVE == 30 * 24 * 60 * 60

RemoveChars(s, chars) == SelectSeq(s, LAMBDA c : c \notin chars)

\* normalize("NFD").replace(/[̀-ͯ]/g, ""): an accented letter
\* becomes the letter.
StripDiacritics(s) == [i \in 1..Len(s) |-> IF s[i] = "e'" THEN "e" ELSE s[i]]

\* replace(/\[[^\]]*\]/g, "")
RECURSIVE StripBrackets(_)
StripBrackets(s) ==
    IF s = << >> THEN << >>
    ELSE IF Head(s) = "[" /\ \E j \in 2..Len(s) : s[j] = "]"
         THEN LET j == CHOOSE j \in 2..Len(s) :
                        /\ s[j] = "]"
                        /\ \A m \in 2..(j - 1) : s[m] # "]"
              IN  StripBrackets(SubSeq(s, j + 1, Len(s)))
         ELSE <<Head(s)>> \o StripBrackets(Tail(s))

\* replace(/\s*\/\s*/g, " "): a "/" with the white space around it becomes
\* one space.
RECURSIVE SlashRunToSpace(_)
SlashRunToSpace(s) ==
    IF s = << >> THEN << >>
    ELSE LET lead == TrimStart(s)
         IN  IF lead # << >> /\ Head(lead) = "/"
             THEN <<" ">> \o SlashRunToSpace(TrimStart(Tail(lead)))
             ELSE <<Head(s)>> \o SlashRunToSpace(Tail(s))

\* "dq" stands for the double quote, "ldq", "rdq", "lsq" and "rsq" for the
\* left and right curly double and single quotes.
QuoteChars == {"dq", "'", "ldq", "rdq", "lsq", "rsq"}

PunctuationChars == {"+", "=", ":", ";", "!", "?", "'", "dq", "&"}

CatalogNormalize_TrimFirst(s) ==
    RemoveChars(
        SlashRunToSpace(
            StripBrackets(StripParens(
                RemoveChars(Trim(CollapseSpaces(
                                StripDiacritics(ToLowerCase(s)))),
                            QuoteChars)))),
        PunctuationChars)

\* normalize of the catalog handler
CatalogNormalize(s) ==
    Trim(CollapseSpaces(
        RemoveChars(
            SlashRunToSpace(
                StripBrackets(StripParens(
                    RemoveChars(StripDiacritics(ToLowerCase(s)),
                                QuoteChars)))),
            PunctuationChars)))

\* toLowerCase().replace(/[^a-z0-9]/g, "")
AlnumOnly(s) ==
    SelectSeq(ToLowerCase(s),
              LAMBDA c : c \in SeqRange(LowerCaseLetters) \cup SeqRange(Digits))

\* getSimilarity, in thousandths
getSimilarity(s1, s2) ==
    LET n1 == AlnumOnly(s1)
        n2 == AlnumOnly(s2)
    IN  IF n1 = n2 THEN 1000
        ELSE IF Includes(n1, n2) \/ Includes(n2, n1) THEN 800
        ELSE 0

noise ==
    { <<"k", "a", "r", "a", "o", "k", "e">>,
      <<"t", "r", "i", "b", "u", "t", "e">>,
      <<"i", "n", "s", "t", "r", "u", "m", "e", "n", "t", "a", "l">>,
      <<"r", "e", "m", "i", "x">>,
      <<"c", "o", "v", "e", "r">> }

\* The score of a phase-2 candidate.
Score(t, trackClean) ==
    getSimilarity(t.name, trackClean)
    - (IF \E n \in noise : Includes(ToLowerCase(t.name), n) THEN 400 ELSE 0)
    + t.popularity

\* scored: the candidates with their scores, sorted by descending score.
\* Array.prototype.sort is stable: candidates of equal score keep the
\* upstream order.
RECURSIVE InsertByScore_Unstable(_, _)
InsertByScore_Unstable(sorted, x) ==
    IF sorted = << >> THEN <<x>>
    ELSE IF Head(sorted).score > x.score
         THEN <<Head(sorted)>> \o InsertByScore_Unstable(Tail(sorted), x)
         ELSE <<x>> \o sorted

RECURSIVE InsertByScore(_, _)
InsertByScore(sorted, x) ==
    IF sorted = << >> THEN <<x>>
    ELSE IF Head(sorted).score >= x.score
         THEN <<Head(sorted)>> \o InsertByScore(Tail(sorted), x)
         ELSE <<x>> \o sorted

RECURSIVE SortByScore(_)
SortByScore(items) ==
    IF items = << >> THEN << >>
    ELSE InsertByScore(SortByScore(SubSeq(items, 1, Len(items) - 1)),
                       items[Len(items)])

Scored(fallbackTracks, trackClean) ==
    SortByScore([i \in 1..Len(fallbackTracks) |->
                    [track |-> fallbackTracks[i],
                     score |-> Score(fallbackTracks[i], trackClean)]])

\* bestFallback && bestFallback.score > 0.5
Accepted_AtThreshold(scored) == scored # << >> /\ scored[1].score >= 500

Accepted(scored) == scored # << >> /\ scored[1].score > 500

\* The queries of the upstream search, and its answer: fetchSpotify gives
\* null for a non-success response, and the items default to [].
StrictQuery(trackClean, artistClean) ==
    [kind |-> "track+artist", track |-> trackClean, artist |-> artistClean,
     limit |-> 5]

FallbackQuery(trackClean) ==
    [kind |-> "track", track |-> trackClean, artist |-> << >>, limit |-> 10]

Items(catalog, query) ==
    IF query \in DOMAIN catalog /\ catalog[query].ok
    THEN catalog[query].items
    ELSE << >>

\* strictTracks.find(t => t.artists.some(a => normalize(a.name) === artistClean))
IsStrictMatch(t, artistClean) ==
    \E i \in 1..Len(t.artists) : CatalogNormalize(t.artists[i]) = artistClean

FindStrict_Last(strictTracks, artistClean) ==
    LET hits == {i \in 1..Len(strictTracks) :
                    IsStrictMatch(strictTracks[i], artistClean)}
    IN  IF hits = {} THEN 0 ELSE CHOOSE i \in hits : \A j \in hits : j <= i

FindStrict(strictTracks, artistClean) ==
    LET hits == {i \in 1..Len(strictTracks) :
                    IsStrictMatch(strictTracks[i], artistClean)}
    IN  IF hits = {} THEN 0 ELSE CHOOSE i \in hits : \A j \in hits : i <= j

NoResult == [found |-> FALSE]

\* finalResult of resolve mode; artists[0]?.name is the first artist's name.
Resolved(t, matchMode, confidence) ==
    [found |-> TRUE,
     artist |-> IF t.artists = << >> THEN << >> ELSE t.artists[1],
     title |-> t.name, id |-> t.id,
     matchMode |-> matchMode, confidence |-> confidence]

\* Resolve mode, after the cache miss and the token: the result and the
\* queries sent upstream.
ResolveTrack(catalog, artist, track) ==
    LET trackClean == CatalogNormalize(track)
        artistClean == CatalogNormalize(artist)
        q1 == StrictQuery(trackClean, artistClean)
        strictTracks == Items(catalog, q1)
        best == FindStrict(strictTracks, artistClean)
        q2 == FallbackQuery(trackClean)
        scored == Scored(Items(catalog, q2), trackClean)
    IN  IF best # 0
        THEN [result |-> Resolved(strictTracks[best], "strict", 1000),
              queries |-> <<q1>>]
        ELSE IF Accepted(scored)
        THEN [result |-> Resolved(scored[1].track, "fallback",
                                  scored[1].score),
              queries |-> <<q1, q2>>]
        ELSE [result |-> NoResult, queries |-> <<q1, q2>>]

\* `spotify:resolve:${normalize(artist)}:${normalize(track)}`
ResolveCacheKey(artist, track) ==
    <<"spotify:", "resolve:">> \o CatalogNormalize(artist) \o <<":">>
        \o CatalogNormalize(track)

ResolveResponse(artist, track, cacheKey, status, body, source, queries) ==
    [op |-> "resolve", artist |-> artist, track |-> track,
     cacheKey |-> cacheKey, status |-> status,
     body |-> body, cacheSource |-> source, queries |-> queries]

\* The handler in resolve mode (artist and track given, q not given).  env
\* holds the upstream catalog (query -> answer), whether the client
\* credentials are configured and whether the token request succeeds.
ResolveGET(artist, track, writeOk) ==
    LET cacheKey == ResolveCacheKey(artist, track)
        got == CacheGet(memory, disk, now, cacheKey)
        r == ResolveTrack(env.catalog, artist, track)
        put == CacheSet(got.memory, got.disk, now, cacheKey, r.result,
                        TTL_RESOLVE, writeOk)
    IN  IF ~env.credentials
        THEN /\ last' = ResolveResponse(artist, track, cacheKey, 500,
                                        NoResult,
                                        "none", << >>)
             /\ UNCHANGED <<memory, disk, now, sets, latest, env, home>>
        ELSE IF got.ret.found
        THEN /\ memory' = got.memory
             /\ disk' = got.disk
             /\ last' = ResolveResponse(artist, track, cacheKey, 200,
                                        got.ret.value,
                                        got.ret.source, << >>)
             /\ UNCHANGED <<now, sets, latest, env, home>>
        ELSE IF ~env.tokenOk
        THEN /\ memory' = got.memory
             /\ disk' = got.disk
             /\ last' = ResolveResponse(artist, track, cacheKey, 500,
                                        NoResult,
                                        "none", << >>)
             /\ UNCHANGED <<now, sets, latest, env, home>>
        ELSE IF ~r.result.found
        THEN /\ memory' = got.memory
             /\ disk' = got.disk
             /\ last' = ResolveResponse(artist, track, cacheKey, 200,
                                        NoResult,
                                        "live", r.queries)
             /\ UNCHANGED <<now, sets, latest, env, home>>
        ELSE /\ sets < MaxSets
             /\ sets' = sets + 1
             /\ memory' = put.memory
             /\ disk' = put.disk
             /\ latest' = MapPut(latest, cacheKey,
                                 [expiresAt |-> now + TTL_RESOLVE])
             /\ last' = ResolveResponse(artist, track, cacheKey, 200,
                                        r.result,
                                        "live", r.queries)
             /\ UNCHANGED <<now, env, home>>

----------------------------------------------------------------------------
(* The upstream catalog the handler runs against.  One request title is    *)
(* the focus of a world: the catalog answers its track+artist query with   *)
(* up to MaxTracks tracks and its title-only query with up to MaxTracks    *)
(* candidates; the queries of the other title get a non-success response.  *)

MaxTracks == 2

Q_Artist == <<"Z", "o", "E'">>

Q_Halo == <<"H", "a", "l", "o", " ", "[", "x", "]">>

Q_Cover == <<"C", "o", "v", "e", "r", "!">>

QueryTitles == {Q_Halo, Q_Cover}

N_Zoe == <<"Z", "o", "e">>

N_ZoeUpper == <<"Z", "O", "E'">>

N_Jay == <<"J", "a", "y">>

N_ZoeBand == N_Zoe \o <<" ", "B", "a", "n", "d">>

MatchingArtists == { <<N_Zoe>>, <<N_Jay, N_ZoeUpper>> }

OtherArtists == { <<N_ZoeBand>> }

CatalogTitle(title) ==
    IF title = Q_Halo THEN <<"H", "a", "l", "o">>
    ELSE <<"C", "o", "v", "e", "r">>

\* The candidates of a title-only answer.  For "Halo" they score 1.1, 0.5,
\* 0.4, 0.8 and -0.4; for "Cover", itself a noise title, 0.7, 0.5, 0.4,
\* 0.4 and -0.4.
Candidates(title) ==
    { [name |-> CatalogTitle(title), popularity |-> 100],
      [name |-> CatalogTitle(title)
                  \o <<" ", "(", "R", "e", "m", "i", "x", ")">>,
       popularity |-> 100],
      [name |-> CatalogTitle(title)
                  \o <<" ", "(", "R", "e", "m", "i", "x", ")">>,
       popularity |-> 0],
      [name |-> CatalogTitle(title) \o <<" ", "L", "i", "v", "e">>,
       popularity |-> 0],
      [name |-> <<"R", "e", "m", "i", "x">>, popularity |-> 0] }

SeqsUpTo(S, n) == UNION { [1..k -> S] : k \in 0..n }

StrictAnswer(title, artistLists) ==
    [ok |-> TRUE,
     items |-> [i \in 1..Len(artistLists) |->
                  [name |-> CatalogTitle(title), artists |-> artistLists[i],
                   id |-> <<"strict", i>>, popularity |-> 50]]]

FallbackAnswer(candidates) ==
    [ok |-> TRUE,
     items |-> [i \in 1..Len(candidates) |->
                  [name |-> candidates[i].name, artists |-> <<N_ZoeBand>>,
                   id |-> <<"fallback", i>>,
                   popularity |-> candidates[i].popularity]]]

Failure == [ok |-> FALSE, items |-> << >>]

AllQueries ==
    { StrictQuery(CatalogNormalize(t), CatalogNormalize(Q_Artist)) :
        t \in QueryTitles }
    \cup { FallbackQuery(CatalogNormalize(t)) : t \in QueryTitles }

Catalog(title, strictAnswer, fallbackAnswer) ==
    [q \in AllQueries |->
        IF q = StrictQuery(CatalogNormalize(title), CatalogNormalize(Q_Artist))
        THEN strictAnswer
        ELSE IF q = FallbackQuery(CatalogNormalize(title))
        THEN fallbackAnswer
        ELSE Failure]

CatalogWorld(credentials, tokenOk, catalog) ==
    [world |-> "catalog", credentials |-> credentials, tokenOk |-> tokenOk,
     catalog |-> catalog]

\* A phase-1 answer with a matching artist meets one phase-2 answer that
\* would be accepted; a phase-1 answer without one, or a failed phase 1,
\* meets every phase-2 answer.
MatchWorlds(title) ==
    { CatalogWorld(TRUE, TRUE,
        Catalog(title, StrictAnswer(title, artistLists),
                FallbackAnswer(<<[name |-> CatalogTitle(title),
                                  popularity |-> 100]>>))) :
        artistLists \in { l \in SeqsUpTo(MatchingArtists \cup OtherArtists,
                                         MaxTracks) :
                            \E i \in 1..Len(l) : l[i] \in MatchingArtists } }

NoMatchWorlds(title) ==
    { CatalogWorld(TRUE, TRUE, Catalog(title, strictAnswer,
                                       FallbackAnswer(candidates))) :
        strictAnswer \in { StrictAnswer(title, l) :
                             l \in SeqsUpTo(OtherArtists, 1) }
                         \cup {Failure},
        candidates \in SeqsUpTo(Candidates(title), MaxTracks) }

ErrorWorlds ==
    { CatalogWorld(c[1], c[2],
        Catalog(Q_Halo, StrictAnswer(Q_Halo, << <<N_Zoe>> >>), Failure)) :
        c \in { <<FALSE, TRUE>>, <<TRUE, FALSE>> } }

ResolveWorlds ==
    UNION { MatchWorlds(title) \cup NoMatchWorlds(title) :
              title \in QueryTitles }
    \cup ErrorWorlds

ResolveInit ==
    /\ memory = EmptyMap
    /\ disk = EmptyMap
    /\ now = 0
    /\ last = NoOp
    /\ sets = 0
    /\ latest = EmptyMap
    /\ env \in ResolveWorlds
    /\ home = NoPage

ResolveNext ==
    \/ \E title \in QueryTitles : ResolveGET(Q_Artist, title, TRUE)
    \/ Restart

SpecResolve == ResolveInit /\ [][ResolveNext]_vars

----------------------------------------------------------------------------
(* Properties of the catalog handler.                                      *)

\* The last request was answered by searching upstream.
IsLiveResolve ==
    /\ last.op = "resolve"
    /\ last.status = 200
    /\ last.cacheSource = "live"

Phase1Items ==
    Items(env.catalog, StrictQuery(CatalogNormalize(last.track),
                                   CatalogNormalize(last.artist)))

Phase2Items == Items(env.catalog, FallbackQuery(CatalogNormalize(last.track)))

\* The tracks of the track+artist answer having an artist whose normalized
\* name is the normalized artist of the request.
ArtistMatches ==
    { i \in 1..Len(Phase1Items) :
        \E a \in 1..Len(Phase1Items[i].artists) :
            CatalogNormalize(Phase1Items[i].artists[a])
                = CatalogNormalize(last.artist) }

SentTitleOnlyQuery ==
    \E k \in 1..Len(last.queries) : last.queries[k].kind = "track"

\* C8: whenever the track+artist answer (limit 5) of a resolve holds a track
\* having an artist whose normalized name equals the normalized artist of
\* the request, the response is the first such track with matchMode
\* "strict" and confidence 1.0, and no title-only query has been sent.
C8_StrictMatchPrecedence ==
    (IsLiveResolve /\ ArtistMatches # {}) =>
        /\ last.queries[1].limit = 5
        /\ last.body.found
        /\ \E i \in ArtistMatches :
              /\ \A j \in ArtistMatches : i <= j
              /\ last.body.id = Phase1Items[i].id
              /\ last.body.title = Phase1Items[i].name
        /\ last.body.matchMode = "strict"
        /\ last.body.confidence = 1000
        /\ ~SentTitleOnlyQuery

\* The match is the second track of the answer, by its second artist, whose
\* name differs from the request's in case; the title-only answer holds a
\* candidate that phase 2 would have accepted.
C8_Witness ==
    /\ IsLiveResolve
    /\ ArtistMatches = {2}
    /\ Len(Phase1Items[2].artists) = 2
    /\ Phase1Items[2].artists[2] # last.artist
    /\ \E i \in 1..Len(Phase2Items) :
          Score(Phase2Items[i], CatalogNormalize(last.track)) > 500
    /\ last.body.found
    /\ last.body.id = Phase1Items[2].id
    /\ last.body.matchMode = "strict"

\* The scores of the candidates of the title-only answer.
Phase2Scores ==
    { Score(Phase2Items[i], CatalogNormalize(last.track)) :
        i \in 1..Len(Phase2Items) }

TopScore == CHOOSE x \in Phase2Scores : \A y \in Phase2Scores : y <= x

\* C9: in phase 2 the top-scored candidate is accepted if and only if its
\* score is strictly greater than 0.5: at exactly 0.5 the response is null,
\* and an accepted candidate comes back with matchMode "fallback" and the
\* score as its confidence.  (No title, noise penalty and popularity in
\* 0..100 give a score of 0.51: the scores next to 0.5 are 0.6 and above.)
C9_FallbackThreshold ==
    (IsLiveResolve /\ SentTitleOnlyQuery) =>
        IF Phase2Scores = {}
        THEN last.body = NoResult
        ELSE /\ last.body.found <=> TopScore > 500
             /\ TopScore = 500 => last.body = NoResult
             /\ last.body.found =>
                   /\ last.body.matchMode = "fallback"
                   /\ last.body.confidence = TopScore
                   /\ \E i \in 1..Len(Phase2Items) :
                         /\ last.body.id = Phase2Items[i].id
                         /\ Score(Phase2Items[i],
                                  CatalogNormalize(last.track)) = TopScore

\* The top candidate scores exactly 0.5 (contained title 0.8, noise -0.4,
\* popularity 100 +0.1) and the response is null.
C9_Witness ==
    /\ IsLiveResolve
    /\ SentTitleOnlyQuery
    /\ Phase2Scores # {}
    /\ TopScore = 500
    /\ last.body = NoResult

\* The score of a title-only candidate as the specification words it, in
\* thousandths: the similarity of the titles reduced to their lower-case
\* letters and digits (1.0 when equal, 0.8 when one contains the other, else
\* 0), minus 0.4 when the candidate's title holds a noise term, plus
\* popularity / 100 * 0.1.
LettersAndDigits(s) ==
    SelectSeq(ToLowerCase(s),
              LAMBDA c : c \in SeqRange(LowerCaseLetters) \cup SeqRange(Digits))

NoiseTerms ==
    { <<"k", "a", "r", "a", "o", "k", "e">>,
      <<"t", "r", "i", "b", "u", "t", "e">>,
      <<"i", "n", "s", "t", "r", "u", "m", "e", "n", "t", "a", "l">>,
      <<"r", "e", "m", "i", "x">>, <<"c", "o", "v", "e", "r">> }

CandidateScore(i) ==
    LET title == LettersAndDigits(Phase2Items[i].name)
        query == LettersAndDigits(CatalogNormalize(last.track))
        similarity == IF title = query THEN 1000
                      ELSE IF Includes(title, query) \/ Includes(query, title)
                      THEN 800
                      ELSE 0
        penalty == IF \E n \in NoiseTerms :
                        Includes(ToLowerCase(Phase2Items[i].name), n)
                   THEN 400 ELSE 0
    IN  similarity - penalty + Phase2Items[i].popularity

\* The candidate phase 2 considers: of maximal score, the earliest of those.
IsConsidered(i) ==
    /\ \A j \in 1..Len(Phase2Items) : CandidateScore(j) <= CandidateScore(i)
    /\ \A j \in 1..(i - 1) : CandidateScore(j) < CandidateScore(i)

\* C23: the title-only query (limit 10) is sent only when no track of the
\* track+artist answer was accepted; the candidate considered for acceptance
\* is one of maximal score among its results, the earliest in upstream order
\* among those of equal score: an accepted track is that candidate, with its
\* score as confidence, and a null result means that candidate's score does
\* not exceed 0.5.
C23_Phase2TopCandidate ==
    IsLiveResolve =>
        /\ SentTitleOnlyQuery =>
              /\ ArtistMatches = {}
              /\ \A k \in 1..Len(last.queries) :
                    last.queries[k].kind = "track" =>
                        last.queries[k].limit = 10
              /\ Len(Phase2Items) <= 10
              /\ IF last.body.found
                 THEN /\ last.body.matchMode = "fallback"
                      /\ \E i \in 1..Len(Phase2Items) :
                            /\ IsConsidered(i)
                            /\ last.body.id = Phase2Items[i].id
                            /\ last.body.title = Phase2Items[i].name
                            /\ last.body.confidence = CandidateScore(i)
                 ELSE \A i \in 1..Len(Phase2Items) :
                            IsConsidered(i) => CandidateScore(i) <= 500
        /\ (last.body.found /\ last.body.matchMode = "fallback") =>
              SentTitleOnlyQuery

\* C23 witness: phase 1 accepted nothing and two candidates of the title-only
\* answer have the same, maximal score; the first of them is the result.
C23_Witness ==
    /\ IsLiveResolve
    /\ SentTitleOnlyQuery
    /\ Len(Phase2Items) = 2
    /\ CandidateScore(1) = CandidateScore(2)
    /\ Phase2Items[1].id # Phase2Items[2].id
    /\ last.body.found
    /\ last.body.matchMode = "fallback"
    /\ last.body.id = Phase2Items[1].id

\* C10: every track returned by resolve has a confidence within [0, 1]:
\* exactly 1.0 when matchMode is "strict", and the computed score when it is
\* "fallback".
C10_ConfidenceInUnitInterval ==
    (last.op = "resolve" /\ last.status = 200 /\ last.body.found) =>
        /\ last.body.confidence \in 0..1000
        /\ last.body.matchMode = "strict" => last.body.confidence = 1000
        /\ (last.body.matchMode = "fallback" /\ IsLiveResolve) =>
              last.body.confidence = TopScore

----------------------------------------------------------------------------
(* The page: generateSetlistPlaylist and retryMissingSongs of page.tsx.    *)
(* home is the state of the component: artistChips, playlist (the artist   *)
(* groups [artist, tracks, originalSongCount]), missingTracks,             *)
(* setlistStats, generationStatus, isLoading, isRetrying, setlistProgress. *)
(* A track of a group is [id, uri, artist, source].  The handlers the page *)
(* calls run elsewhere: their answers are inputs of the actions.  The      *)
(* history of drafts and the display fields of a group (setlistUrl,        *)
(* metadata, debugStats) are left out.                                     *)

\* A property that is missing, or null.
Undefined == "undefined"

\* normalizeSongTitle
normalizeSongTitle(title) ==
    Apply(Trim,
          Apply(CollapseSpaces,
                Apply(LAMBDA s : RemoveChars(s, PunctuationChars),
                      Apply(SlashRunToSpace,
                            Apply(StripBrackets,
                                  Apply(StripParens,
                                        RemoveChars(title, QuoteChars)))))))

Dash == <<" ", "-", " ">>

\* `${artistName} - ${songName}`
MissingLabel(artistName, songName) == artistName \o Dash \o songName

\* missingObjects: m.split(" - ") read as { artist: parts[0], song: parts[1] }
MissingObject(m) ==
    LET parts == Split(m, Dash)
    IN  [artist |-> parts[1],
         song |-> IF Len(parts) >= 2 THEN parts[2] ELSE Undefined]

\* const norm = (s) => s.toLowerCase().trim()
norm(s) == Trim(ToLowerCase(s))

\* chosen: the best of the artist endpoint when it carries an mbid, else the
\* result with an mbid whose name is the artist's, else the first result
\* with an mbid.  Undefined when there is none.
Chosen(artistData, artistName) ==
    LET results == artistData.results
        named == { i \in 1..Len(results) :
                     /\ results[i].mbid # Undefined
                     /\ norm(results[i].name) = norm(artistName) }
        withId == { i \in 1..Len(results) : results[i].mbid # Undefined }
    IN  IF artistData.best.mbid # Undefined THEN artistData.best.mbid
        ELSE IF named # {}
        THEN results[CHOOSE i \in named : \A j \in named : i <= j].mbid
        ELSE IF withId # {}
        THEN results[CHOOSE i \in withId : \A j \in withId : i <= j].mbid
        ELSE Undefined

\* Map over the groups of one artist.
EmptyGroup(artistName, originalSongCount) ==
    [artist |-> artistName, tracks |-> << >>,
     originalSongCount |-> originalSongCount]

\* A push to the front of the group.
PushTrack_Front(resultsByArtist, artistName, track) ==
    [resultsByArtist EXCEPT ![artistName].tracks = <<track>> \o @]

PushTrack(resultsByArtist, artistName, track) ==
    [resultsByArtist EXCEPT ![artistName].tracks = Append(@, track)]

\* A loop that gives up on the artist at the first song that is not resolved.
RECURSIVE ResolveSongs_StopOnFailure(_, _, _, _, _)
ResolveSongs_StopOnFailure(acc, artistName, songs, answers, j) ==
    IF j > Len(songs) THEN acc
    ELSE LET call == [api |-> "resolve", artist |-> artistName,
                      track |-> normalizeSongTitle(songs[j])]
             called == [acc EXCEPT !.calls = Append(@, call)]
         IN  IF answers[j].kind = "track"
             THEN ResolveSongs_StopOnFailure(
                    [called EXCEPT !.resultsByArtist =
                        PushTrack(@, artistName,
                                  [id |-> answers[j].id,
                                   uri |-> answers[j].uri,
                                   artist |-> artistName,
                                   source |-> "setlist"])],
                    artistName, songs, answers, j + 1)
             ELSE [called EXCEPT !.tracksMissing =
                        Append(@, MissingLabel(artistName, songs[j]))]

\* Step 2: the loop over the songs of one artist, from song j.  answers[j]
\* is what /api/spotify/search answers for song j: [kind |-> "track", id,
\* uri], [kind |-> "null"] (no resolution) or [kind |-> "fail"] (non-success
\* response or thrown error).
RECURSIVE ResolveSongs(_, _, _, _, _)
ResolveSongs(acc, artistName, songs, answers, j) ==
    IF j > Len(songs) THEN acc
    ELSE LET call == [api |-> "resolve", artist |-> artistName,
                      track |-> normalizeSongTitle(songs[j])]
             called == [acc EXCEPT !.calls = Append(@, call)]
             acc1 ==
                IF answers[j].kind = "track"
                THEN [called EXCEPT !.resultsByArtist =
                        PushTrack(@, artistName,
                                  [id |-> answers[j].id,
                                   uri |-> answers[j].uri,
                                   artist |-> artistName,
                                   source |-> "setlist"])]
                ELSE [called EXCEPT !.tracksMissing =
                        Append(@, MissingLabel(artistName, songs[j]))]
         IN  ResolveSongs(acc1, artistName, songs, answers, j + 1)

\* normalizeInput: s.replace(/^["']|["']$/g, "").trim().replace(/\s+/g, " ")
StripEdgeQuotes(s) ==
    LET a == IF s # << >> /\ Head(s) \in {"dq", "'"} THEN Tail(s) ELSE s
    IN  IF a # << >> /\ a[Len(a)] \in {"dq", "'"}
        THEN SubSeq(a, 1, Len(a) - 1)
        ELSE a

normalizeInput(s) ==
    Apply(CollapseSpaces, Apply(Trim, StripEdgeQuotes(s)))

\* normalizeName of the fallback path: lower case, no diacritics, letters,
\* digits and white space only, trimmed.
fallbackNormalizeName(s) ==
    Apply(Trim,
          SelectSeq(StripDiacritics(ToLowerCase(s)),
                    LAMBDA c : \/ c \in SeqRange(LowerCaseLetters)
                               \/ c \in SeqRange(Digits)
                               \/ IsSpace(c)))

isMatch(t, normalizedArtistInput) ==
    \E tArtist \in {fallbackNormalizeName(t.artist)},
       targetNormalized \in {fallbackNormalizeName(normalizedArtistInput)} :
        Includes(tArtist, targetNormalized)
            \/ Includes(targetNormalized, tArtist)

\* fetchFallback: the tracks of the answer of /api/spotify/search?q=..,
\* [] when the response is not a success.
FallbackTracks(answer) == IF answer.ok THEN answer.tracks ELSE << >>

\* A merge that adds every track of the extension.
MergeUnique_KeepsAll(validFallback, validExtended) ==
    validFallback \o validExtended

\* Merge unique tracks, up to 10.
RECURSIVE MergeUnique(_, _)
MergeUnique(validFallback, validExtended) ==
    IF validExtended = << >> \/ Len(validFallback) >= 10 THEN validFallback
    ELSE IF \E k \in 1..Len(validFallback) :
                validFallback[k].id = Head(validExtended).id
         THEN MergeUnique(validFallback, Tail(validExtended))
         ELSE MergeUnique(Append(validFallback, Head(validExtended)),
                          Tail(validExtended))

RECURSIVE PushFallback(_, _, _)
PushFallback(resultsByArtist, artistName, tracks) ==
    IF tracks = << >> THEN resultsByArtist
    ELSE PushFallback(
            PushTrack(resultsByArtist, artistName,
                      [id |-> Head(tracks).id, uri |-> Head(tracks).uri,
                       artist |-> artistName,
                       source |-> "spotify_top_tracks"]),
            artistName, Tail(tracks))

\* FALLBACK PATH of one artist.  fb[1], fb[2] and fb[3] answer the quoted
\* query, the unquoted query and the extended query (limit 50).
FallbackPath(acc, artistName, fb) ==
    LET input == normalizeInput(artistName)
        quoted == <<"artist:", "dq">> \o input \o <<"dq">>
        unquoted == <<"artist:">> \o input
        first == FallbackTracks(fb[1])
        retry == Len(first) = 0
        usedQuery == IF retry THEN unquoted ELSE quoted
        fallbackTracks == IF retry THEN FallbackTracks(fb[2]) ELSE first
        filtered == SelectSeq(fallbackTracks, LAMBDA t : isMatch(t, input))
        extend == Len(filtered) < 10 /\ Len(fallbackTracks) > 0
        validExtended ==
            SelectSeq(FallbackTracks(fb[3]), LAMBDA t : isMatch(t, input))
        validFallback ==
            IF extend THEN MergeUnique(filtered, validExtended) ELSE filtered
        calls ==
            <<[api |-> "search", q |-> quoted, limit |-> 10]>>
            \o (IF retry
                THEN <<[api |-> "search", q |-> unquoted, limit |-> 10]>>
                ELSE << >>)
            \o (IF extend
                THEN <<[api |-> "search", q |-> usedQuery, limit |-> 50]>>
                ELSE << >>)
        called == [acc EXCEPT !.calls = @ \o calls]
    IN  IF Len(validFallback) > 0
        THEN [called EXCEPT
                !.resultsByArtist =
                    [PushFallback(@, artistName, validFallback)
                        EXCEPT ![artistName].originalSongCount =
                                    Len(validFallback)]]
        ELSE [called EXCEPT !.missingSetlists = Append(@, artistName)]

\* Step 1 for one artist.  a.artist answers /api/setlist/artist ([ok, best,
\* results]), a.union answers /api/setlist/latest5union ([ok, songs]),
\* a.songs the resolutions of the songs and a.fb the fallback searches.
GenerateArtist(acc, artistName, a) ==
    LET asked == [acc EXCEPT !.calls =
                    Append(@, [api |-> "artist", name |-> artistName])]
        mbid == Chosen(a.artist, artistName)
        songs == IF a.union.ok THEN a.union.songs ELSE << >>
        started ==
            [asked EXCEPT
                !.calls = Append(@, [api |-> "union", mbid |-> mbid,
                                     limit |-> 5]),
                !.resultsByArtist =
                    MapPut(@, artistName,
                           EmptyGroup(artistName, Len(songs))),
                !.totalSongsCount = @ + Len(songs)]
    IN  IF ~a.artist.ok THEN asked
        ELSE IF mbid = Undefined
        THEN [asked EXCEPT !.missingSetlists = Append(@, artistName)]
        ELSE IF Len(songs) > 0
        THEN ResolveSongs(started, artistName, songs, a.songs, 1)
        ELSE FallbackPath(started, artistName, a.fb)

RECURSIVE GenerateArtists(_, _, _, _)
GenerateArtists(acc, artistChips, script, i) ==
    IF i > Len(artistChips) THEN acc
    ELSE GenerateArtists(GenerateArtist(acc, artistChips[i], script[i]),
                         artistChips, script, i + 1)

GenerateStart ==
    [resultsByArtist |-> EmptyMap, tracksMissing |-> << >>,
     missingSetlists |-> << >>, totalSongsCount |-> 0, calls |-> << >>]

\* Global dedupe by URI: the tracks of one group that are kept, given the
\* URIs seen in the groups before; a track without URI is kept.
RECURSIVE UniqueTracks(_, _, _)
UniqueTracks(tracks, seenUris, kept) ==
    IF tracks = << >> THEN [tracks |-> kept, seenUris |-> seenUris]
    ELSE IF Head(tracks).uri = Undefined
    THEN UniqueTracks(Tail(tracks), seenUris, Append(kept, Head(tracks)))
    ELSE IF Head(tracks).uri \in seenUris
    THEN UniqueTracks(Tail(tracks), seenUris, kept)
    ELSE UniqueTracks(Tail(tracks), seenUris \cup {Head(tracks).uri},
                      Append(kept, Head(tracks)))

RECURSIVE DedupeGroups(_, _)
DedupeGroups(groups, seenUris) ==
    IF groups = << >> THEN << >>
    ELSE LET u == UniqueTracks(Head(groups).tracks, seenUris, << >>)
         IN  <<[Head(groups) EXCEPT !.tracks = u.tracks]>>
             \o DedupeGroups(Tail(groups), u.seenUris)

\* uniqueMatchedUris
MatchedUris(playlist) ==
    UNION { { playlist[g].tracks[k].uri : k \in 1..Len(playlist[g].tracks) } :
            g \in 1..Len(playlist) } \ {Undefined}

RECURSIVE SumTracks(_)
SumTracks(playlist) ==
    IF playlist = << >> THEN 0
    ELSE Len(Head(playlist).tracks) + SumTracks(Tail(playlist))

FinalStatus_AnyMatched(matched, missing) ==
    IF matched > 0 THEN "success" ELSE "error"

\* finalStatus
FinalStatus(matched, missing) ==
    IF matched > 0 /\ missing = 0 THEN "success"
    ELSE IF matched > 0 /\ missing > 0 THEN "partial"
    ELSE "error"

NoStats == [isNull |-> TRUE]

\* The final state updates: the state the run leaves, and the calls it made,
\* given what the loop over the artists accumulated.
FinishRun(artistChips, acc) ==
    LET present == SelectSeq(artistChips,
                             LAMBDA n : MapHas(acc.resultsByArtist, n))
        orderedPlaylistData ==
            [i \in 1..Len(present) |-> acc.resultsByArtist[present[i]]]
        missingObjects ==
            [i \in 1..Len(acc.tracksMissing) |->
                MissingObject(acc.tracksMissing[i])]
        missingCount == Len(acc.tracksMissing)
        Final(dedupedPlaylistData, matchedCount) ==
            [playlist |-> dedupedPlaylistData,
             missingTracks |-> missingObjects,
             setlistStats |->
                [isNull |-> FALSE, total |-> acc.totalSongsCount,
                 matched |-> matchedCount, missing |-> missingCount,
                 missingSetlists |-> acc.missingSetlists],
             generationStatus |-> FinalStatus(matchedCount, missingCount),
             calls |-> acc.calls]
        Counted(dedupedPlaylistData) ==
            Final(dedupedPlaylistData,
                  Cardinality(MatchedUris(dedupedPlaylistData)))
    IN  Apply(Counted, DedupeGroups(orderedPlaylistData, {}))

\* The state a whole run leaves when script holds, artist by artist, the
\* answers to its calls.
Generated(artistChips, script) ==
    FinishRun(artistChips,
              GenerateArtists(GenerateStart, artistChips, script, 1))

\* generateSetlistPlaylist, from the click to the end of the run.  env.script
\* holds, artist by artist, what the handlers answer during the run.
Generate ==
    LET Done(g) ==
            /\ home' = [home EXCEPT
                          !.playlist = g.playlist,
                          !.missingTracks = g.missingTracks,
                          !.setlistStats = g.setlistStats,
                          !.generationStatus = g.generationStatus,
                          !.isLoading = FALSE,
                          !.setlistProgress = << >>]
            /\ last' = [op |-> "generate", calls |-> g.calls]
    IN  /\ home.open
        /\ Len(home.artistChips) > 0
        /\ ~home.isLoading
        /\ Done(Generated(home.artistChips, env.script))
        /\ UNCHANGED <<memory, disk, now, sets, latest, env>>

\* The loop of retryMissingSongs over missingTracks, from item i.
\* answers[i] is what /api/spotify/search answers for item i.
RECURSIVE RetryItems(_, _, _, _)
RetryItems(acc, missingTracks, answers, i) ==
    IF i > Len(missingTracks) THEN acc
    ELSE LET item == missingTracks[i]
             call == [api |-> "resolve", artist |-> item.artist,
                      track |-> normalizeSongTitle(item.song)]
             called == [acc EXCEPT !.calls = Append(@, call)]
             groups == { g \in 1..Len(acc.currentPlaylist) :
                           acc.currentPlaylist[g].artist = item.artist }
             artistGroup == CHOOSE g \in groups : \A h \in groups : g <= h
             acc1 ==
                IF answers[i].kind = "track"
                THEN IF groups # {}
                     THEN [called EXCEPT
                            !.currentPlaylist[artistGroup].tracks =
                                Append(@, [id |-> answers[i].id,
                                           uri |-> answers[i].uri,
                                           artist |-> item.artist,
                                           source |-> Undefined]),
                            !.newlyFoundCount = @ + 1]
                     ELSE called
                ELSE [called EXCEPT !.newMissingTracks = Append(@, item)]
         IN  RetryItems(acc1, missingTracks, answers, i + 1)

\* retryMissingSongs, from the click to the end of the retry.
Retry(answers) ==
    LET Done(r, totalMatched, totalMissing) ==
            /\ home' =
                IF r.newlyFoundCount > 0
                THEN [home EXCEPT
                        !.playlist = r.currentPlaylist,
                        !.missingTracks = r.newMissingTracks,
                        !.setlistStats.matched = totalMatched,
                        !.setlistStats.missing = totalMissing,
                        !.generationStatus =
                            FinalStatus(totalMatched, totalMissing),
                        !.isRetrying = FALSE,
                        !.setlistProgress = << >>]
                ELSE [home EXCEPT !.isRetrying = FALSE,
                                  !.setlistProgress = << >>]
            /\ last' = [op |-> "retry", answers |-> answers,
                        calls |-> r.calls]
        Counted(r) ==
            Done(r, SumTracks(r.currentPlaylist), Len(r.newMissingTracks))
    IN  /\ home.open
        /\ Len(home.missingTracks) > 0
        /\ ~home.isRetrying
        /\ ~home.isLoading
        /\ Counted(RetryItems([currentPlaylist |-> home.playlist,
                               newMissingTracks |-> << >>,
                               newlyFoundCount |-> 0, calls |-> << >>],
                              home.missingTracks, answers, 1))
        /\ UNCHANGED <<memory, disk, now, sets, latest, env>>

----------------------------------------------------------------------------
(* The runs of the page that are explored: one to two artists, the first   *)
(* with a setlist of up to MaxTitles songs and every answer of the track   *)
(* resolution for each, or with one of the fallback searches; the second   *)
(* with one of a few answers.                                              *)

MaxTitles == 2

A_Zoe == <<"Z", "o", "e">>

A_Jay == <<"J", "a", "y">>

\* "Zoe - X"
A_ZoeX == <<"Z", "o", "e", " ", "-", " ", "X">>

ChipLists == { <<A_Zoe>>, <<A_Zoe, A_Jay>>, <<A_ZoeX, A_Jay>> }

\* "Halo", "Go (x)", "A - B", "Cover!"
SongTitles ==
    << <<"H", "a", "l", "o">>, <<"G", "o", " ", "(", "x", ")">>,
       <<"A", " ", "-", " ", "B">>, <<"C", "o", "v", "e", "r", "!">> >>

UnionSongLists == { SubSeq(SongTitles, 1, n) : n \in 1..MaxTitles }

TrackAnswer(id, uri) == [kind |-> "track", id |-> id, uri |-> uri]

SongAnswers ==
    { TrackAnswer("t1", "u1"), TrackAnswer("t1", Undefined),
      TrackAnswer("t2", "u2"), [kind |-> "null"] }

RetryAnswers ==
    { TrackAnswer("t1", "u1"), TrackAnswer("t3", "u3"), [kind |-> "null"] }

\* best: null
NoBest == [name |-> << >>, mbid |-> Undefined]

ArtistFail == [ok |-> FALSE, best |-> NoBest, results |-> << >>]

ArtistBest ==
    [ok |-> TRUE, best |-> [name |-> A_Zoe, mbid |-> "m1"],
     results |-> << >>]

ArtistByResults ==
    [ok |-> TRUE, best |-> NoBest,
     results |-> << [name |-> <<"X">>, mbid |-> Undefined],
                    [name |-> <<"O">>, mbid |-> "m3"],
                    [name |-> <<" ", "Z", "O", "E">>, mbid |-> "m2"] >>]

ArtistNoId ==
    [ok |-> TRUE, best |-> NoBest,
     results |-> << [name |-> <<"X">>, mbid |-> Undefined] >>]

SearchFail == [ok |-> FALSE, tracks |-> << >>]

SearchOk(tracks) == [ok |-> TRUE, tracks |-> tracks]

FoundTrack(artist, id, uri) == [artist |-> artist, id |-> id, uri |-> uri]

\* Tracks from..to of a catalog of tracks by "Zoe Jay", a name that overlaps
\* both "Zoe" and "Jay".
CatalogIds ==
    << "t1", "t2", "t3", "t4", "t5", "t6", "t7", "t8", "t9", "t10", "t11",
       "t12" >>

CatalogUris ==
    << "u1", "u2", "u3", "u4", "u5", "u6", "u7", "u8", "u9", "u10", "u11",
       "u12" >>

ZoeTracks(from, to) ==
    [k \in 1..(to - from + 1) |->
        FoundTrack(A_Zoe \o <<" ">> \o A_Jay, CatalogIds[from + k - 1],
                   CatalogUris[from + k - 1])]

FallbackAnswers ==
    { <<SearchFail, SearchFail, SearchFail>>,
      <<SearchOk(<< FoundTrack(A_Zoe, "t1", "u1"),
                    FoundTrack(<<"O">>, "t9", "u9") >>),
        SearchFail,
        SearchOk(<< FoundTrack(A_Zoe, "t1", "u1"),
                    FoundTrack(A_Zoe \o <<" ", "B">>, "t2", "u2"),
                    FoundTrack(<<"O">>, "t9", "u9") >>)>>,
      <<SearchOk(<< >>),
        SearchOk(<< FoundTrack(<<"J">>, "t2", "u2") >>),
        SearchFail>>,
      <<SearchOk(ZoeTracks(1, 7) \o << FoundTrack(<<"X">>, "t9", "u9") >>),
        SearchFail,
        SearchOk(ZoeTracks(1, 8) \o ZoeTracks(8, 9)
                 \o << FoundTrack(<<"X">>, "t9", "u9") >>
                 \o ZoeTracks(10, 12))>>,
      <<SearchOk(ZoeTracks(1, 10)), SearchFail, SearchFail>> }

UnionFail == [ok |-> FALSE, songs |-> << >>]

UnionOk(songs) == [ok |-> TRUE, songs |-> songs]

NoFallback == <<SearchFail, SearchFail, SearchFail>>

ArtistScript(artist, union, songs, fb) ==
    [artist |-> artist, union |-> union, songs |-> songs, fb |-> fb]

FirstScripts ==
    { ArtistScript(ArtistFail, UnionFail, << >>, NoFallback),
      ArtistScript(ArtistNoId, UnionFail, << >>, NoFallback),
      ArtistScript(ArtistByResults, UnionOk(SubSeq(SongTitles, 1, 1)),
                   <<TrackAnswer("t1", "u1")>>, NoFallback) }
    \cup UNION { { ArtistScript(ArtistBest, UnionOk(l), answers, NoFallback) :
                     answers \in [1..Len(l) -> SongAnswers] } :
                 l \in UnionSongLists }
    \cup { ArtistScript(ArtistBest, u, << >>, fb) :
             u \in {UnionFail, UnionOk(<< >>)}, fb \in FallbackAnswers }

OtherScripts ==
    { ArtistScript(ArtistFail, UnionFail, << >>, NoFallback),
      ArtistScript(ArtistNoId, UnionFail, << >>, NoFallback) }
    \cup { ArtistScript(ArtistBest, UnionOk(SubSeq(SongTitles, 1, 1)),
                        <<a>>, NoFallback) :
             a \in { TrackAnswer("t1", "u1"), TrackAnswer("t1", Undefined),
                     [kind |-> "fail"] } }
    \cup { ArtistScript(ArtistBest, UnionOk(<< >>), << >>, fb) :
             fb \in FallbackAnswers \ {NoFallback} }

Scripts(artistChips) ==
    { <<f>> \o rest : f \in FirstScripts,
                      rest \in [1..(Len(artistChips) - 1) -> OtherScripts] }

InitialHome(artistChips) ==
    [open |-> TRUE, artistChips |-> artistChips, playlist |-> << >>,
     missingTracks |-> << >>, setlistStats |-> NoStats,
     generationStatus |-> "idle", isLoading |-> FALSE, isRetrying |-> FALSE,
     setlistProgress |-> << >>]

PageInit ==
    /\ memory = EmptyMap
    /\ disk = EmptyMap
    /\ now = 0
    /\ last = NoOp
    /\ sets = 0
    /\ latest = EmptyMap
    /\ \E artistChips \in ChipLists :
          /\ home = InitialHome(artistChips)
          /\ env \in { [world |-> "page", script |-> script] :
                          script \in Scripts(artistChips) }

PageNext ==
    \/ Generate
    \/ \E answers \in [1..Len(home.missingTracks) -> RetryAnswers] :
          Retry(answers)

SpecPage == PageInit /\ [][PageNext]_vars

----------------------------------------------------------------------------
(* Properties of the page.                                                 *)

\* The number of missing tracks that resolve during the last retry.
ResolvedInRetry(answers) ==
    Cardinality({ i \in DOMAIN answers : answers[i].kind = "track" })

IsPrefix(s, t) == Len(s) <= Len(t) /\ s = SubSeq(t, 1, Len(s))

\* C12: a retry on a result with a non-empty missing list in which exactly n
\* of the missing tracks resolve decreases the missing count by n and
\* increases the matched count by n, leaves every previously matched track
\* in place and unchanged, and issues one resolve call for each missing
\* (artist, song) pair and no other call.
C12_RetryAccounting ==
    [][last'.op = "retry" =>
        LET n == ResolvedInRetry(last'.answers)
        IN  /\ Len(home'.missingTracks) = Len(home.missingTracks) - n
            /\ home'.setlistStats.missing = home.setlistStats.missing - n
            /\ home'.setlistStats.matched = home.setlistStats.matched + n
            /\ Len(home'.playlist) = Len(home.playlist)
            /\ \A g \in 1..Len(home.playlist) :
                  /\ home'.playlist[g].artist = home.playlist[g].artist
                  /\ IsPrefix(home.playlist[g].tracks,
                              home'.playlist[g].tracks)
            /\ Len(last'.calls) = Len(home.missingTracks)
            /\ \A k \in 1..Len(last'.calls) :
                  /\ last'.calls[k].api = "resolve"
                  /\ last'.calls[k].artist = home.missingTracks[k].artist
                  /\ last'.calls[k].track =
                        normalizeSongTitle(home.missingTracks[k].song)]_vars

Places(playlist) ==
    UNION { { <<g, k>> : k \in 1..Len(playlist[g].tracks) } :
            g \in 1..Len(playlist) }

\* The groups of the last run before the global dedupe, in artist order.
ResolvedGroups ==
    LET acc == GenerateArtists(GenerateStart, home.artistChips, env.script, 1)
        present == SelectSeq(home.artistChips,
                             LAMBDA n : MapHas(acc.resultsByArtist, n))
    IN  [i \in 1..Len(present) |-> acc.resultsByArtist[present[i]]]

Before(p, q) == p[1] < q[1] \/ (p[1] = q[1] /\ p[2] < q[2])

\* C14: in the result of a generation run no catalog identifier appears more
\* than once across the groups; each group holds, in order, those of its
\* artist's resolved tracks whose identifier no earlier track (in artist
\* order, then track order) carries; and the matched statistic is the number
\* of distinct identifiers kept.
C14_GlobalDedupeById ==
    (last.op = "generate") =>
        LET kept == home.playlist
            all == ResolvedGroups
        IN  /\ \A p, q \in Places(kept) :
                  kept[p[1]].tracks[p[2]].id = kept[q[1]].tracks[q[2]].id
                      => p = q
            /\ Len(kept) = Len(all)
            /\ \A g \in 1..Len(all) :
                  /\ kept[g].artist = all[g].artist
                  /\ kept[g].tracks =
                        LET first(k) ==
                              \A q \in Places(all) :
                                  Before(q, <<g, k>>) =>
                                      all[q[1]].tracks[q[2]].id
                                          # all[g].tracks[k].id
                            ks == { k \in 1..Len(all[g].tracks) : first(k) }
                            RECURSIVE pick(_)
                            pick(k) ==
                                IF k > Len(all[g].tracks) THEN << >>
                                ELSE (IF k \in ks
                                      THEN <<all[g].tracks[k]>>
                                      ELSE << >>) \o pick(k + 1)
                        IN  pick(1)
            /\ home.setlistStats.matched =
                  Cardinality({ kept[p[1]].tracks[p[2]].id :
                                  p \in Places(kept) })

\* The calls of the last run made for the i-th requested artist: the run asks
\* the artist endpoint once per artist it reaches, and the calls that follow,
\* up to the next such call, are made for that artist.
ArtistCallPositions(calls) ==
    { k \in 1..Len(calls) : calls[k].api = "artist" }

CallsFor(calls, i) ==
    LET starts == ArtistCallPositions(calls)
        Nth(n) == CHOOSE k \in starts :
                     Cardinality({ h \in starts : h <= k }) = n
    IN  IF Cardinality(starts) < i THEN << >>
        ELSE SubSeq(calls, Nth(i),
                    IF Cardinality(starts) > i THEN Nth(i + 1) - 1
                    ELSE Len(calls))

\* The answer of the artist endpoint carries no mbid: the request failed, or
\* neither best nor any result has one.
NoCanonicalIdentity(artistAnswer) ==
    \/ ~artistAnswer.ok
    \/ /\ artistAnswer.best.mbid = Undefined
       /\ \A r \in 1..Len(artistAnswer.results) :
             artistAnswer.results[r].mbid = Undefined

\* C27: when artist resolution yields no canonical identity for a requested
\* artist, the artist is listed in missingSetlists, the only call made for
\* it is the artist search (no aggregation, track resolution or fallback
\* search), and the run goes on to ask for every following artist.
C27_NoIdentityIsMissingSetlist ==
    (last.op = "generate") =>
        \A i \in 1..Len(home.artistChips) :
            NoCanonicalIdentity(env.script[i].artist) =>
                /\ \E k \in 1..Len(home.setlistStats.missingSetlists) :
                      home.setlistStats.missingSetlists[k]
                          = home.artistChips[i]
                /\ CallsFor(last.calls, i)
                      = <<[api |-> "artist", name |-> home.artistChips[i]]>>
                /\ \A n \in (i + 1)..Len(home.artistChips) :
                      /\ CallsFor(last.calls, n) # << >>
                      /\ Head(CallsFor(last.calls, n))
                            = [api |-> "artist", name |-> home.artistChips[n]]

\* The same, for the artists whose search was answered.
C27_AnsweredWithoutIdentity ==
    (last.op = "generate") =>
        \A i \in 1..Len(home.artistChips) :
            (env.script[i].artist.ok
             /\ NoCanonicalIdentity(env.script[i].artist)) =>
                /\ \E k \in 1..Len(home.setlistStats.missingSetlists) :
                      home.setlistStats.missingSetlists[k]
                          = home.artistChips[i]
                /\ CallsFor(last.calls, i)
                      = <<[api |-> "artist", name |-> home.artistChips[i]]>>

\* The calls made for an artist whose search failed, and the artists asked
\* after it.
C27_FailedSearchEndsTheArtist ==
    (last.op = "generate") =>
        \A i \in 1..Len(home.artistChips) :
            ~env.script[i].artist.ok =>
                /\ CallsFor(last.calls, i)
                      = <<[api |-> "artist", name |-> home.artistChips[i]]>>
                /\ Cardinality(ArtistCallPositions(last.calls))
                      = Len(home.artistChips)

\* What the run of the last generation accumulated before the final steps.
RunAccumulators ==
    GenerateArtists(GenerateStart, home.artistChips, env.script, 1)

\* The songs the aggregation answered for the i-th requested artist.
SongsOf(i) ==
    IF env.script[i].union.ok THEN env.script[i].union.songs ELSE << >>

\* The i-th requested artist was resolved and has a non-empty song list.
HasSetlist(i) ==
    /\ ~NoCanonicalIdentity(env.script[i].artist)
    /\ SongsOf(i) # << >>

\* The songs of the i-th artist whose resolution answered a track, and the
\* others (null result, non-success response, thrown error).
FoundSongs(i) ==
    { j \in 1..Len(SongsOf(i)) : env.script[i].songs[j].kind = "track" }

LostSongs(i) == (1..Len(SongsOf(i))) \ FoundSongs(i)

\* All lost songs of the run, as <<artist index, song index>>.
LostPlaces ==
    UNION { { <<i, j>> : j \in LostSongs(i) } :
            i \in { n \in 1..Len(home.artistChips) : HasSetlist(n) } }

\* The position of element x in the increasing enumeration of set s.
Rank(x, s) == Cardinality({ y \in s : y <= x })

PlaceRank(p, s) == Cardinality({ q \in s : q = p \/ Before(q, p) })

\* The tracks of an artist in a list of groups; << >> without a group.
TracksIn(groups, artistName) ==
    LET gs == { g \in 1..Len(groups) : groups[g].artist = artistName }
    IN  IF gs = {} THEN << >> ELSE groups[CHOOSE g \in gs : TRUE].tracks

\* The URIs of the tracks resolved before song j of artist i, in artist
\* order then song order.
EarlierUris(i, j) ==
    LET all == ResolvedGroups
        gs == { g \in 1..Len(all) : all[g].artist = home.artistChips[i] }
        own == CHOOSE g \in gs : TRUE
        k == Rank(j, FoundSongs(i))
    IN  { all[q[1]].tracks[q[2]].uri :
            q \in { p \in Places(all) : Before(p, <<own, k>>) } }

C26_EverySongShown ==
    (last.op = "generate") =>
        \A i \in 1..Len(home.artistChips) :
            HasSetlist(i) =>
                Len(TracksIn(home.playlist, home.artistChips[i]))
                    = Cardinality(FoundSongs(i))

\* The i-th requested artist was resolved and its song list is empty.
TakesFallback(i) ==
    /\ ~NoCanonicalIdentity(env.script[i].artist)
    /\ SongsOf(i) = << >>

\* The tracks that the fallback searches answered for the i-th artist.
AnsweredTracks(i) ==
    UNION { IF env.script[i].fb[n].ok
            THEN { env.script[i].fb[n].tracks[k] :
                     k \in 1..Len(env.script[i].fb[n].tracks) }
            ELSE {} : n \in 1..3 }

\* The number of tracks of the first non-empty search (quoted, else
\* unquoted) that pass the filter: the tracks that follow them in the group
\* were added by the extension step.
BeforeExtension(i) ==
    LET quoted == FallbackTracks(env.script[i].fb[1])
        first == IF Len(quoted) = 0 THEN FallbackTracks(env.script[i].fb[2])
                 ELSE quoted
    IN  Cardinality({ k \in 1..Len(first) :
                        isMatch(first[k],
                                normalizeInput(home.artistChips[i])) })

RECURSIVE IsSubsequence(_, _)
IsSubsequence(s, t) ==
    IF s = << >> THEN TRUE
    ELSE IF t = << >> THEN FALSE
    ELSE IF Head(s) = Head(t) THEN IsSubsequence(Tail(s), Tail(t))
    ELSE IsSubsequence(s, Tail(t))

\* The position of an artist among the requested artists.
ChipIndex(artistName) ==
    CHOOSE i \in 1..Len(home.artistChips) : home.artistChips[i] = artistName

\* What the resolutions answered for the songs of the i-th artist, song by
\* song, as tracks of its group.
AnswersInSongOrder(i) ==
    [j \in 1..Len(SongsOf(i)) |->
        IF env.script[i].songs[j].kind = "track"
        THEN [id |-> env.script[i].songs[j].id,
              uri |-> env.script[i].songs[j].uri,
              artist |-> home.artistChips[i], source |-> "setlist"]
        ELSE [id |-> Undefined, uri |-> Undefined,
              artist |-> home.artistChips[i], source |-> "none"]]

\* What the fallback searches answered for the i-th artist, as tracks of
\* its group: the first non-empty search, then the extended search.
AnswersInSearchOrder(i) ==
    LET quoted == FallbackTracks(env.script[i].fb[1])
        first == IF Len(quoted) = 0 THEN FallbackTracks(env.script[i].fb[2])
                 ELSE quoted
        both == first \o FallbackTracks(env.script[i].fb[3])
    IN  [k \in 1..Len(both) |->
            [id |-> both[k].id, uri |-> both[k].uri,
             artist |-> home.artistChips[i],
             source |-> "spotify_top_tracks"]]

\* C29: in the result of a generation run the groups are those of requested
\* artists, one per artist, in the order in which the artists were
\* requested; the tracks of a group of the setlist path follow the order of
\* the songs they were resolved from, and the tracks of a group of the
\* fallback path follow the order of the search answers (the first search,
\* then the extended search).
C29_OutputOrder ==
    (last.op = "generate") =>
        /\ \A g \in 1..Len(home.playlist) :
              \E i \in 1..Len(home.artistChips) :
                  home.artistChips[i] = home.playlist[g].artist
        /\ \A g, h \in 1..Len(home.playlist) :
              g < h => ChipIndex(home.playlist[g].artist)
                          < ChipIndex(home.playlist[h].artist)
        /\ \A g \in 1..Len(home.playlist) :
              LET i == ChipIndex(home.playlist[g].artist)
              IN  IF SongsOf(i) # << >>
                  THEN IsSubsequence(home.playlist[g].tracks,
                                     AnswersInSongOrder(i))
                  ELSE IsSubsequence(home.playlist[g].tracks,
                                     AnswersInSearchOrder(i))

\* Two artists: the group of the first holds the tracks of its two songs,
\* the group of the second the tracks of a fallback search that follow them
\* in the catalog.
C29_Witness ==
    /\ last.op = "generate"
    /\ Len(home.playlist) = 2
    /\ home.playlist[1].artist = home.artistChips[1]
    /\ home.playlist[2].artist = home.artistChips[2]
    /\ Len(home.playlist[1].tracks) = 2
    /\ home.playlist[1].tracks[1].id # home.playlist[1].tracks[2].id
    /\ home.playlist[1].tracks[1].source = "setlist"
    /\ TakesFallback(2)
    /\ Len(home.playlist[2].tracks) = 8
    /\ home.playlist[2].tracks[1].id = "t3"
    /\ home.playlist[2].tracks[8].id = "t10"

\* sumTotal of the consistency check: the originalSongCount of the groups.
RECURSIVE SumOriginalSongCount(_)
SumOriginalSongCount(playlist) ==
    IF playlist = << >> THEN 0
    ELSE Head(playlist).originalSongCount
         + SumOriginalSongCount(Tail(playlist))

\* The catalog identifiers of the tracks of a playlist.
IdsOf(playlist) ==
    { playlist[p[1]].tracks[p[2]].id : p \in Places(playlist) }

\* No identifier appears twice across the groups, and matched is the number
\* of distinct identifiers.
DistinctAndCounted(h) ==
    /\ \A p, q \in Places(h.playlist) :
          h.playlist[p[1]].tracks[p[2]].id = h.playlist[q[1]].tracks[q[2]].id
              => p = q
    /\ h.setlistStats.matched = Cardinality(IdsOf(h.playlist))

\* C38: a retry on a result without repeated identifier, whose matched count
\* is the number of its distinct identifiers, leaves a result of which the
\* same is true.
C38_RetryKeepsIdsDistinct ==
    [][(last'.op = "retry" /\ DistinctAndCounted(home)) =>
            DistinctAndCounted(home')]_vars

\* What is left of C38 when no track found by the retry carries an
\* identifier the result already holds or that the retry finds twice.
C38_DistinctWhenNewIdsAreNew ==
    [][(/\ last'.op = "retry"
        /\ DistinctAndCounted(home)
        /\ \A i \in DOMAIN last'.answers :
              last'.answers[i].kind = "track" =>
                  /\ last'.answers[i].id \notin IdsOf(home.playlist)
                  /\ \A j \in DOMAIN last'.answers :
                        (/\ j # i
                         /\ last'.answers[j].kind = "track"
                         /\ last'.answers[j].id = last'.answers[i].id) =>
                            FALSE) =>
            DistinctAndCounted(home')]_vars

\* What is left of C37 when every artist search is answered with a success:
\* every requested artist has a group or is listed without setlist.
C37_AccountedForWhenSearchAnswers ==
    (/\ last.op = "generate"
     /\ \A i \in 1..Len(home.artistChips) : env.script[i].artist.ok) =>
        \A i \in 1..Len(home.artistChips) :
            \/ \E g \in 1..Len(home.playlist) :
                  home.playlist[g].artist = home.artistChips[i]
            \/ \E k \in 1..Len(home.setlistStats.missingSetlists) :
                  home.setlistStats.missingSetlists[k] = home.artistChips[i]

\* C35: after a generation run the consistency check finds no mismatch:
\* stats.matched is the number of tracks of the groups and stats.total is the
\* sum of their originalSongCount.
C35_NoStatsMismatch ==
    last.op = "generate" =>
        /\ SumTracks(home.playlist) = home.setlistStats.matched
        /\ SumOriginalSongCount(home.playlist) = home.setlistStats.total

\* What is left of C35 for the runs that take no fallback and whose tracks
\* all carry a URI.
C35_MatchWithoutFallbackAndWithUris ==
    (/\ last.op = "generate"
     /\ \A i \in 1..Len(home.artistChips) : ~TakesFallback(i)
     /\ \A p \in Places(home.playlist) :
            home.playlist[p[1]].tracks[p[2]].uri # Undefined) =>
        /\ SumTracks(home.playlist) = home.setlistStats.matched
        /\ SumOriginalSongCount(home.playlist) = home.setlistStats.total

----------------------------------------------------------------------------
(* generateSetlistPlaylist call by call.  The run is an async function:    *)
(* between two awaits it runs without interruption, so a step of the model *)
(* is the return (or the failure) of the call the run is waiting for,      *)
(* together with everything the run does up to its next await, the final   *)
(* state updates and the finally block included when no call is left.      *)
(* home.run is the position of the run: the call awaited (at), the index   *)
(* of the artist (i), the answers received for that artist (a) and the     *)
(* locals of the run (acc).  env.secureContext tells whether the page runs  *)
(* in a secure context, where crypto.randomUUID exists.                    *)

NoAnswers == ArtistScript(ArtistFail, UnionFail, << >>, NoFallback)

IdleRun == [at |-> "idle", i |-> 0, a |-> NoAnswers, acc |-> GenerateStart]

\* No retry is under way.  A retry that is under way holds the missingTracks
\* of the render it was clicked in (items), the item it waits for (i), its
\* locals (acc), and whether the groups of its currentPlaylist are still the
\* objects of the playlist state (aliased): const currentPlaylist =
\* [...playlist] copies the array, not the groups.
IdleRetry ==
    [at |-> "idle", i |-> 0, items |-> << >>, aliased |-> FALSE,
     acc |-> [currentPlaylist |-> << >>, newMissingTracks |-> << >>,
              newlyFoundCount |-> 0, calls |-> << >>]]

\* setSetlistProgress of the artist loop, the song loop and the fallback.
ConcertsProgress(artistName) == <<"concerts", ":">> \o artistName

SongProgress(artistName, j, n) == <<"songs", ":">> \o artistName \o <<j, n>>

TopTracksProgress(artistName) == <<"top", ":">> \o artistName

\* The end of the try block and the finally block.  finalThrows: the final
\* part throws after the status was set (addToHistory, called when a group
\* exists, returns early without tracks and otherwise calls
\* crypto.randomUUID), and the outer catch sets the status to error.
FinishedHome(h, acc, finalThrows) ==
    LET Done(g) ==
            [h EXCEPT !.playlist = g.playlist,
                      !.missingTracks = g.missingTracks,
                      !.setlistStats = g.setlistStats,
                      !.generationStatus =
                          IF finalThrows /\ SumTracks(g.playlist) > 0
                          THEN "error"
                          ELSE g.generationStatus,
                      !.isLoading = FALSE,
                      !.setlistProgress = << >>,
                      !.run = IdleRun]
    IN  Apply(Done, FinishRun(h.artistChips, acc))

\* An artist loop that asks for the same artist again.
NextArtist_SameAgain(h, acc, finalThrows) ==
    [h EXCEPT !.run = [at |-> "artist", i |-> h.run.i, a |-> NoAnswers,
                       acc |-> acc]]

\* The end of an iteration of the artist loop (also by continue or through
\* the catch of the iteration): the next artist, or the end of the run.
NextArtist(h, acc, finalThrows) ==
    LET Next(locals) ==
            IF h.run.i < Len(h.artistChips)
            THEN [h EXCEPT !.run = [at |-> "artist", i |-> h.run.i + 1,
                                    a |-> NoAnswers, acc |-> locals],
                           !.setlistProgress =
                               ConcertsProgress(h.artistChips[h.run.i + 1])]
            ELSE FinishedHome(h, locals, finalThrows)
    IN  Apply(Next, acc)

\* crypto.randomUUID is not a function.
HistoryThrows == ~env.secureContext

\* The click on the button, up to the first await.
RunStart ==
    /\ home.open
    /\ Len(home.artistChips) > 0
    /\ ~home.isLoading
    /\ home' = [home EXCEPT
                  !.isLoading = TRUE,
                  !.playlist = << >>,
                  !.setlistStats = NoStats,
                  !.generationStatus = "fetching",
                  !.setlistProgress = ConcertsProgress(home.artistChips[1]),
                  !.run = [at |-> "artist", i |-> 1, a |-> NoAnswers,
                           acc |-> GenerateStart],
                  !.retry.aliased = FALSE]
    /\ last' = [op |-> "click"]
    /\ UNCHANGED <<memory, disk, now, sets, latest, env>>

\* /api/setlist/artist returns answer, or the fetch throws.
ArtistReturns(answer, thrown) ==
    LET r == home.run
        artistName == home.artistChips[r.i]
        a == [r.a EXCEPT !.artist = answer]
    IN  /\ r.at = "artist"
        /\ last' = [op |-> "return", api |-> "artist", answer |-> answer,
                    thrown |-> thrown]
        /\ home' =
              IF thrown THEN NextArtist(home, r.acc, HistoryThrows)
              ELSE IF ~answer.ok \/ Chosen(answer, artistName) = Undefined
              THEN NextArtist(home, GenerateArtist(r.acc, artistName, a),
                              HistoryThrows)
              ELSE [home EXCEPT !.run.at = "union", !.run.a = a]
        /\ UNCHANGED <<memory, disk, now, sets, latest, env>>

\* /api/setlist/latest5union returns answer, or the fetch throws.
UnionReturns(answer, thrown) ==
    LET r == home.run
        artistName == home.artistChips[r.i]
        a == [r.a EXCEPT !.union = answer]
        songs == IF answer.ok THEN answer.songs ELSE << >>
    IN  /\ r.at = "union"
        /\ last' = [op |-> "return", api |-> "union", answer |-> answer,
                    thrown |-> thrown]
        /\ home' =
              IF thrown THEN NextArtist(home, r.acc, HistoryThrows)
              ELSE IF Len(songs) > 0
              THEN [home EXCEPT
                      !.run.at = "song", !.run.a = a,
                      !.generationStatus =
                          IF r.i = 1 THEN "resolving" ELSE @,
                      !.setlistProgress =
                          SongProgress(artistName, 1, Len(songs))]
              ELSE [home EXCEPT
                      !.run.at = "quoted", !.run.a = a,
                      !.setlistProgress = TopTracksProgress(artistName)]
        /\ UNCHANGED <<memory, disk, now, sets, latest, env>>

\* /api/spotify/search?track=.. returns answer for the song awaited; a
\* thrown error is the answer [kind |-> "fail"].
SongReturns(answer) ==
    LET r == home.run
        artistName == home.artistChips[r.i]
        a == [r.a EXCEPT !.songs = Append(@, answer)]
        n == Len(r.a.union.songs)
    IN  /\ r.at = "song"
        /\ last' = [op |-> "return", api |-> "resolve", answer |-> answer,
                    thrown |-> FALSE]
        /\ home' =
              IF Len(a.songs) = n
              THEN NextArtist(home, GenerateArtist(r.acc, artistName, a),
                              HistoryThrows)
              ELSE [home EXCEPT
                      !.run.a = a,
                      !.setlistProgress =
                          SongProgress(artistName, Len(a.songs) + 1, n)]
        /\ UNCHANGED <<memory, disk, now, sets, latest, env>>

\* validFallback.length < 10 && fallbackTracks.length > 0
NeedsExtension(fallbackTracks, artistName) ==
    /\ Len(SelectSeq(fallbackTracks,
                     LAMBDA t : isMatch(t, normalizeInput(artistName)))) < 10
    /\ Len(fallbackTracks) > 0

\* The catch of the fallback path: the artist joins missingSetlists and its
\* group stays empty, which is what a fallback without any track does.
FallbackThrown(h) ==
    NextArtist(h,
               GenerateArtist(h.run.acc, h.artistChips[h.run.i],
                              [h.run.a EXCEPT !.fb = NoFallback]),
               HistoryThrows)

\* /api/spotify/search?q=artist:".."&limit=10 returns answer, or throws.
QuotedReturns(answer, thrown) ==
    LET r == home.run
        artistName == home.artistChips[r.i]
        a == [r.a EXCEPT !.fb[1] = answer]
    IN  /\ r.at = "quoted"
        /\ last' = [op |-> "return", api |-> "search", answer |-> answer,
                    thrown |-> thrown]
        /\ home' =
              IF thrown THEN FallbackThrown(home)
              ELSE IF Len(FallbackTracks(answer)) = 0
              THEN [home EXCEPT !.run.at = "unquoted", !.run.a = a]
              ELSE IF NeedsExtension(FallbackTracks(answer), artistName)
              THEN [home EXCEPT !.run.at = "extended", !.run.a = a]
              ELSE NextArtist(home, GenerateArtist(r.acc, artistName, a),
                              HistoryThrows)
        /\ UNCHANGED <<memory, disk, now, sets, latest, env>>

\* /api/spotify/search?q=artist:..&limit=10 returns answer, or throws.
UnquotedReturns(answer, thrown) ==
    LET r == home.run
        artistName == home.artistChips[r.i]
        a == [r.a EXCEPT !.fb[2] = answer]
    IN  /\ r.at = "unquoted"
        /\ last' = [op |-> "return", api |-> "search", answer |-> answer,
                    thrown |-> thrown]
        /\ home' =
              IF thrown THEN FallbackThrown(home)
              ELSE IF NeedsExtension(FallbackTracks(answer), artistName)
              THEN [home EXCEPT !.run.at = "extended", !.run.a = a]
              ELSE NextArtist(home, GenerateArtist(r.acc, artistName, a),
                              HistoryThrows)
        /\ UNCHANGED <<memory, disk, now, sets, latest, env>>

\* /api/spotify/search?q=..&limit=50 returns answer, or throws.
ExtendedReturns(answer, thrown) ==
    LET r == home.run
        artistName == home.artistChips[r.i]
        a == [r.a EXCEPT !.fb[3] = answer]
    IN  /\ r.at = "extended"
        /\ last' = [op |-> "return", api |-> "search", answer |-> answer,
                    thrown |-> thrown]
        /\ home' =
              IF thrown THEN FallbackThrown(home)
              ELSE NextArtist(home, GenerateArtist(r.acc, artistName, a),
                              HistoryThrows)
        /\ UNCHANGED <<memory, disk, now, sets, latest, env>>

\* The answers explored, call by call, for one artist and for two.  The
\* names are one letter long: the run only compares them.
RunArtists == << <<"Z">>, <<"J">> >>

RunChipLists == { SubSeq(RunArtists, 1, 1), RunArtists }

RunSongs == << <<"a">>, <<"b">>, <<"c">>, <<"d">> >>

RunArtistAnswers == { ArtistFail, ArtistNoId, ArtistBest }

RunUnionAnswers ==
    { UnionFail, UnionOk(<< >>), UnionOk(SubSeq(RunSongs, 1, MaxTitles)) }

RunSongAnswers == { TrackAnswer("t1", "u1"), [kind |-> "fail"] }

RunSearchAnswers ==
    { SearchFail,
      SearchOk(<< FoundTrack(RunArtists[1], "t1", "u1"),
                  FoundTrack(RunArtists[1], "t2", "u2") >>) }

RunInit ==
    /\ memory = EmptyMap
    /\ disk = EmptyMap
    /\ now = 0
    /\ last = NoOp
    /\ sets = 0
    /\ latest = EmptyMap
    /\ env \in { [world |-> "run", secureContext |-> secure] :
                    secure \in BOOLEAN }
    /\ \E artistChips \in RunChipLists :
          home = [open |-> TRUE, artistChips |-> artistChips,
                  playlist |-> << >>, missingTracks |-> << >>,
                  setlistStats |-> NoStats, generationStatus |-> "idle",
                  isLoading |-> FALSE, isRetrying |-> FALSE,
                  setlistProgress |-> << >>, run |-> IdleRun,
                  retry |-> IdleRetry]

\* The call the run is waiting for returns or fails.
RunStep ==
    \/ \E answer \in RunArtistAnswers : ArtistReturns(answer, FALSE)
    \/ ArtistReturns(ArtistFail, TRUE)
    \/ \E answer \in RunUnionAnswers : UnionReturns(answer, FALSE)
    \/ UnionReturns(UnionFail, TRUE)
    \/ \E answer \in RunSongAnswers : SongReturns(answer)
    \/ \E answer \in RunSearchAnswers :
          \/ QuotedReturns(answer, FALSE)
          \/ UnquotedReturns(answer, FALSE)
          \/ ExtendedReturns(answer, FALSE)
    \/ QuotedReturns(SearchFail, TRUE)
    \/ UnquotedReturns(SearchFail, TRUE)
    \/ ExtendedReturns(SearchFail, TRUE)

RunNext == RunStart \/ RunStep

\* Every call the run waits for eventually returns or fails; nothing makes
\* the user click.
SpecRun == RunInit /\ [][RunNext]_vars /\ WF_vars(RunStep)

\* The run is over.
RunFinished ==
    /\ home.generationStatus \in {"success", "partial", "error"}
    /\ ~home.isLoading
    /\ home.setlistProgress = << >>

\* C30: provided every call returns or fails, a run that has started
\* (loading, or with the status fetching or resolving) eventually finishes
\* with the status success, partial or error, the loading flag cleared and
\* the progress text empty, whichever calls failed or threw.
C30_RunEventuallyFinishes ==
    (home.isLoading \/ home.generationStatus \in {"fetching", "resolving"})
        ~> RunFinished

\* While a run is under way it is loading, and a run that is not under way
\* is finished or was never started.
C30_LoadingIffRunning ==
    /\ home.isLoading <=> home.run.at # "idle"
    /\ ~home.isLoading =>
          \/ RunFinished
          \/ home.generationStatus = "idle" /\ last = NoOp

\* A run of two artists in which the search for the first threw and the
\* fallback of the second threw has ended: nothing matched, the second
\* artist is listed without setlist, the status is error.
C30_Witness ==
    /\ RunFinished
    /\ last.op = "return" /\ last.api = "search" /\ last.thrown
    /\ Len(home.artistChips) = 2
    /\ home.generationStatus = "error"
    /\ home.playlist = <<EmptyGroup(home.artistChips[2], 0)>>
    /\ home.setlistStats.missingSetlists = <<home.artistChips[2]>>
    /\ home.setlistStats.matched = 0

\* The artist has a group in the playlist or is listed without setlist.
AccountedFor(artistName) ==
    \/ \E g \in 1..Len(home.playlist) : home.playlist[g].artist = artistName
    \/ \E k \in 1..Len(home.setlistStats.missingSetlists) :
          home.setlistStats.missingSetlists[k] = artistName

\* C37: after a generation run has finished, every requested artist has a
\* group in the playlist or is in the missing-setlist list.
C37_EveryArtistAccountedFor ==
    (RunFinished /\ last.op = "return") =>
        \A i \in 1..Len(home.artistChips) :
            AccountedFor(home.artistChips[i])

----------------------------------------------------------------------------
(* retryMissingSongs call by call, next to generateSetlistPlaylist.  The   *)
(* retry button is disabled while isRetrying or isLoading (page.tsx:1656); *)
(* the generate button only while isLoading or without chips.              *)

RetryingProgress == <<"Reintentando canciones no encontradas...">>

\* The click on the retry button, up to the first await.
RetryStart ==
    /\ home.open
    /\ Len(home.missingTracks) > 0
    /\ ~home.isRetrying
    /\ ~home.isLoading
    /\ home' = [home EXCEPT
                  !.isRetrying = TRUE,
                  !.setlistProgress = RetryingProgress,
                  !.retry = [at |-> "item", i |-> 1,
                             items |-> home.missingTracks, aliased |-> TRUE,
                             acc |-> [currentPlaylist |-> home.playlist,
                                      newMissingTracks |-> << >>,
                                      newlyFoundCount |-> 0,
                                      calls |-> << >>]]]
    /\ last' = [op |-> "retry click"]
    /\ UNCHANGED <<memory, disk, now, sets, latest, env>>

\* setSetlistStats(prev => ({ ...prev!, matched, missing })): spreading null
\* gives no property.
PatchedStats(prev, totalMatched, totalMissing) ==
    IF prev.isNull
    THEN [isNull |-> FALSE, total |-> Undefined, matched |-> totalMatched,
          missing |-> totalMissing, missingSetlists |-> << >>]
    ELSE [prev EXCEPT !.matched = totalMatched, !.missing = totalMissing]

\* The end of the retry: the write-back when a track was found, and the
\* flag and the progress text cleared.
RetriedHome(h, acc) ==
    LET Done(totalMatched, totalMissing) ==
            IF acc.newlyFoundCount > 0
            THEN [h EXCEPT
                    !.playlist = acc.currentPlaylist,
                    !.missingTracks = acc.newMissingTracks,
                    !.setlistStats =
                        PatchedStats(@, totalMatched, totalMissing),
                    !.generationStatus =
                        FinalStatus(totalMatched, totalMissing),
                    !.isRetrying = FALSE,
                    !.setlistProgress = << >>,
                    !.retry = IdleRetry]
            ELSE [h EXCEPT !.isRetrying = FALSE,
                           !.setlistProgress = << >>,
                           !.retry = IdleRetry]
    IN  Done(SumTracks(acc.currentPlaylist), Len(acc.newMissingTracks))

\* /api/spotify/search returns answer for the item the retry waits for, or
\* the fetch throws.  A track found is pushed to its group, which is still a
\* group of the playlist state unless a run has replaced the playlist.
RetryReturns(answer, thrown) ==
    LET r == home.retry
        Step(acc) ==
            IF r.i < Len(r.items)
            THEN [home EXCEPT
                    !.retry.i = r.i + 1,
                    !.retry.acc = acc,
                    !.playlist = IF r.aliased THEN acc.currentPlaylist
                                 ELSE @]
            ELSE RetriedHome(home, acc)
    IN  /\ r.at = "item"
        /\ last' = [op |-> "retry return", answer |-> answer,
                    thrown |-> thrown,
                    writes |-> r.i = Len(r.items),
                    stale |-> ~r.aliased]
        /\ home' = Apply(Step,
                         RetryItems(r.acc, <<r.items[r.i]>>,
                                    <<IF thrown THEN [kind |-> "fail"]
                                      ELSE answer>>, 1))
        /\ UNCHANGED <<memory, disk, now, sets, latest, env>>

RetryStep ==
    \/ \E answer \in RunSongAnswers : RetryReturns(answer, FALSE)
    \/ RetryReturns([kind |-> "fail"], TRUE)

\* One artist, whose setlist has MaxTitles songs; each song is found or not,
\* in the run and again in the retry.
RunRetryInit ==
    /\ RunInit
    /\ Len(home.artistChips) = 1
    /\ env.secureContext

RunRetryNext ==
    \/ RunStart
    \/ ArtistReturns(ArtistBest, FALSE)
    \/ UnionReturns(UnionOk(SubSeq(RunSongs, 1, MaxTitles)), FALSE)
    \/ \E answer \in RunSongAnswers : SongReturns(answer)
    \/ RetryStart
    \/ RetryStep

SpecRunRetry == RunRetryInit /\ [][RunRetryNext]_vars

\* C36, first half: while a retry is in flight no generation run starts.
C36_NoRunStartsDuringRetry ==
    [][~(home.isRetrying /\ last'.op = "click")]_vars

\* C36, second half: the write-back of a retry does not fall on the result
\* of a generation run that started after the retry did and has finished.
C36_RetryWritesOnItsOwnResult ==
    [][(/\ last'.op = "retry return"
        /\ last'.writes
        /\ last'.stale
        /\ ~home.isLoading) =>
            /\ home'.playlist = home.playlist
            /\ home'.missingTracks = home.missingTracks
            /\ home'.setlistStats = home.setlistStats
            /\ home'.generationStatus = home.generationStatus
    ]_vars

----------------------------------------------------------------------------
(* The artist handler: GET /api/setlist/artist?name=..                     *)

\* 7 days.  The clock of the model counts seconds.
TTL_ARTIST == 7 * 24 * 60 * 60

\* const normalize = (s) => s.toLowerCase().trim()
artistNormalize(s) == Trim(ToLowerCase(s))

\* `setlist:artist:${normalize(name)}`
ArtistCacheKey(name) == <<"setlist:", "artist:">> \o artistNormalize(name)

\* data.artist can be missing, an object, or an array: data is
\* [kind |-> "missing" | "object" | "array", items |-> the artists].
Artists(data) ==
    IF data.kind = "missing" THEN << >>
    ELSE IF data.kind = "array" THEN data.items
    ELSE <<data.items[1]>>

\* rawResults: the artists carrying an mbid, as {name, mbid}.
RawResults(artists) ==
    LET withId == SelectSeq(artists, LAMBDA a : a.mbid # Undefined)
    IN  [i \in 1..Len(withId) |->
            [name |-> withId[i].name, mbid |-> withId[i].mbid]]

\* rawResults.find(r => normalize(r.name) === normName): the index of the
\* first such result, 0 when there is none.
ExactMatch(rawResults, normName) ==
    LET hits == { i \in 1..Len(rawResults) :
                    artistNormalize(rawResults[i].name) = normName }
    IN  IF hits = {} THEN 0 ELSE CHOOSE i \in hits : \A j \in hits : i <= j

\* sortedByLength[0]: the sort is stable, so the first of the shortest.
ShortestFirst_Longest(rawResults) ==
    CHOOSE i \in 1..Len(rawResults) :
        \A j \in 1..Len(rawResults) :
            \/ Len(rawResults[i].name) > Len(rawResults[j].name)
            \/ (Len(rawResults[i].name) = Len(rawResults[j].name) /\ i <= j)

ShortestFirst(rawResults) ==
    CHOOSE i \in 1..Len(rawResults) :
        \A j \in 1..Len(rawResults) :
            \/ Len(rawResults[i].name) < Len(rawResults[j].name)
            \/ (Len(rawResults[i].name) = Len(rawResults[j].name) /\ i <= j)

\* finalResult
ArtistResult(name, data) ==
    LET rawResults == RawResults(Artists(data))
        exactMatch == ExactMatch(rawResults, artistNormalize(name))
    IN  [best |-> IF exactMatch # 0 THEN rawResults[exactMatch]
                  ELSE IF Len(rawResults) > 0
                  THEN rawResults[ShortestFirst(rawResults)]
                  ELSE NoBest,
         needsChoice |-> Len(rawResults) > 1 /\ exactMatch = 0,
         results |-> SubSeq(rawResults, 1, Min(Len(rawResults), 10))]

ArtistResponse(name, status, body, cached, cacheSource, upstream) ==
    [op |-> "artist", name |-> name, status |-> status, body |-> body,
     cached |-> cached, cacheSource |-> cacheSource, upstream |-> upstream]

NoBody == [best |-> NoBest, needsChoice |-> FALSE, results |-> << >>]

\* The handler storing the empty body when the upstream search fails.
ArtistGET_CachesFailure(name, writeOk) ==
    LET cacheKey == ArtistCacheKey(name)
        got == CacheGet(memory, disk, now, cacheKey)
        res == env.artists
        finalResult == ArtistResult(name, res.data)
        put == CacheSet(got.memory, got.disk, now, cacheKey, finalResult,
                        TTL_ARTIST, writeOk)
    IN  IF name = << >>
        THEN /\ last' = ArtistResponse(name, 400, NoBody, FALSE, "none", 0)
             /\ UNCHANGED <<memory, disk, now, sets, latest, env, home>>
        ELSE IF got.ret.found
        THEN /\ memory' = got.memory
             /\ disk' = got.disk
             /\ last' = ArtistResponse(name, 200, got.ret.value, TRUE,
                                       got.ret.source, 0)
             /\ UNCHANGED <<now, sets, latest, env, home>>
        ELSE IF ~env.apiKey
        THEN /\ memory' = got.memory
             /\ disk' = got.disk
             /\ last' = ArtistResponse(name, 500, NoBody, FALSE, "none", 0)
             /\ UNCHANGED <<now, sets, latest, env, home>>
        ELSE IF ~res.ok
        THEN /\ memory' = CacheSet(got.memory, got.disk, now, cacheKey, NoBody,
                                   TTL_ARTIST, writeOk).memory
             /\ disk' = CacheSet(got.memory, got.disk, now, cacheKey, NoBody,
                                 TTL_ARTIST, writeOk).disk
             /\ last' = ArtistResponse(name, res.status, NoBody, FALSE,
                                       "none", 1)
             /\ UNCHANGED <<now, sets, latest, env, home>>
        ELSE /\ sets < MaxSets
             /\ sets' = sets + 1
             /\ memory' = put.memory
             /\ disk' = put.disk
             /\ latest' = MapPut(latest, cacheKey,
                                 [expiresAt |-> now + TTL_ARTIST])
             /\ last' = ArtistResponse(name, 200, finalResult, FALSE,
                                       "live", 1)
             /\ UNCHANGED <<now, env, home>>

\* The handler.  env.artists is what the upstream artist search answers:
\* [ok, status, data]; env.apiKey is whether SETLISTFM_API_KEY is set.
\* upstream counts the calls made to the upstream service.
ArtistGET(name, writeOk) ==
    LET cacheKey == ArtistCacheKey(name)
        got == CacheGet(memory, disk, now, cacheKey)
        res == env.artists
        finalResult == ArtistResult(name, res.data)
        put == CacheSet(got.memory, got.disk, now, cacheKey, finalResult,
                        TTL_ARTIST, writeOk)
    IN  IF name = << >>
        THEN /\ last' = ArtistResponse(name, 400, NoBody, FALSE, "none", 0)
             /\ UNCHANGED <<memory, disk, now, sets, latest, env, home>>
        ELSE IF got.ret.found
        THEN /\ memory' = got.memory
             /\ disk' = got.disk
             /\ last' = ArtistResponse(name, 200, got.ret.value, TRUE,
                                       got.ret.source, 0)
             /\ UNCHANGED <<now, sets, latest, env, home>>
        ELSE IF ~env.apiKey
        THEN /\ memory' = got.memory
             /\ disk' = got.disk
             /\ last' = ArtistResponse(name, 500, NoBody, FALSE, "none", 0)
             /\ UNCHANGED <<now, sets, latest, env, home>>
        ELSE IF ~res.ok
        THEN /\ memory' = got.memory
             /\ disk' = got.disk
             /\ last' = ArtistResponse(name, res.status, NoBody, FALSE,
                                       "none", 1)
             /\ UNCHANGED <<now, sets, latest, env, home>>
        ELSE /\ sets < MaxSets
             /\ sets' = sets + 1
             /\ memory' = put.memory
             /\ disk' = put.disk
             /\ latest' = MapPut(latest, cacheKey,
                                 [expiresAt |-> now + TTL_ARTIST])
             /\ last' = ArtistResponse(name, 200, finalResult, FALSE,
                                       "live", 1)
             /\ UNCHANGED <<now, env, home>>

----------------------------------------------------------------------------
(* The artist handler asked for " ZOE" and for "Zo", the upstream service  *)
(* answering any list of up to MaxArtists artists of a pool, as an array,  *)
(* as a single object, with no artist property, or with an error.          *)

MaxArtists == 2

\* " ZOE"
AQ_Zoe == <<" ", "Z", "O", "E">>

AQ_Zo == <<"Z", "o">>

ArtistNames == { AQ_Zoe, AQ_Zo, << >> }

ArtistPool ==
    { [name |-> A_Zoe \o <<" ", "B">>, mbid |-> "m1"],
      [name |-> A_Zoe, mbid |-> "m2"],
      [name |-> <<"z", "o", "e", " ">>, mbid |-> "m3"],
      [name |-> <<"Z">>, mbid |-> Undefined],
      [name |-> A_Jay, mbid |-> "m5"] }

\* A page of the upstream search with more artists than the handler
\* returns: ten bands named after Zoe, then Zoe.
ManyArtists ==
    [i \in 1..10 |-> [name |-> A_Zoe \o <<" ", Digits[i]>>,
                      mbid |-> <<"b0", "b1", "b2", "b3", "b4", "b5", "b6",
                                 "b7", "b8", "b9">>[i]]]
    \o <<[name |-> A_Zoe, mbid |-> "m2"]>>

ArtistData ==
    { [kind |-> "array", items |-> l] : l \in SeqsUpTo(ArtistPool, MaxArtists) }
    \cup { [kind |-> "array", items |-> ManyArtists] }
    \cup { [kind |-> "object", items |-> <<a>>] : a \in ArtistPool }
    \cup { [kind |-> "missing", items |-> << >>] }

ArtistWorlds ==
    { [world |-> "artist", apiKey |-> TRUE,
       artists |-> [ok |-> TRUE, status |-> 200, data |-> d]] :
        d \in ArtistData }
    \cup { [world |-> "artist", apiKey |-> TRUE,
            artists |-> [ok |-> FALSE, status |-> 404,
                         data |-> [kind |-> "missing", items |-> << >>]]] }

ArtistInit ==
    /\ memory = EmptyMap
    /\ disk = EmptyMap
    /\ now = 0
    /\ last = NoOp
    /\ sets = 0
    /\ latest = EmptyMap
    /\ env \in ArtistWorlds
    /\ home = NoPage

ArtistNext ==
    \/ \E name \in ArtistNames : ArtistGET(name, TRUE)
    \/ Restart

SpecArtist == ArtistInit /\ [][ArtistNext]_vars

----------------------------------------------------------------------------
(* Properties of the artist handler.                                       *)

\* The upstream results carrying a canonical identifier, by position.
ArtistCandidates ==
    { i \in 1..Len(Artists(env.artists.data)) :
        Artists(env.artists.data)[i].mbid # Undefined }

\* Those whose name is the requested one, case and surrounding white space
\* apart.
ExactCandidates ==
    { i \in ArtistCandidates :
        ToLowerCase(Trim(Artists(env.artists.data)[i].name))
            = ToLowerCase(Trim(last.name)) }

IsBest(i) ==
    /\ last.body.best.name = Artists(env.artists.data)[i].name
    /\ last.body.best.mbid = Artists(env.artists.data)[i].mbid

\* C15: of the upstream results carrying a canonical identifier, best is the
\* first whose name equals the input without regard to case and surrounding
\* white space, with needsChoice false; if there is none, best is a
\* candidate of minimal name length and needsChoice is true exactly when
\* there is more than one candidate; without a candidate best is null and
\* needsChoice false.
C15_ArtistDecisionRule ==
    (last.op = "artist" /\ last.status = 200 /\ ~last.cached) =>
        IF ExactCandidates # {}
        THEN /\ \E i \in ExactCandidates :
                   /\ \A j \in ExactCandidates : i <= j
                   /\ IsBest(i)
             /\ ~last.body.needsChoice
        ELSE IF ArtistCandidates # {}
        THEN /\ \E i \in ArtistCandidates :
                   /\ \A j \in ArtistCandidates :
                         Len(Artists(env.artists.data)[i].name)
                             <= Len(Artists(env.artists.data)[j].name)
                   /\ IsBest(i)
             /\ last.body.needsChoice <=> Cardinality(ArtistCandidates) > 1
        ELSE /\ last.body.best = NoBest
             /\ ~last.body.needsChoice

\* No exact match among two candidates: the second, the shorter one, is best
\* and a choice is needed.
C15_Witness ==
    /\ last.op = "artist"
    /\ last.status = 200
    /\ ~last.cached
    /\ last.name = AQ_Zo
    /\ Cardinality(ArtistCandidates) = 2
    /\ ExactCandidates = {}
    /\ last.body.best.mbid = "m5"
    /\ last.body.needsChoice

\* best is null, or one of the candidates returned.
BestIsReturned(body) ==
    body.best # NoBest =>
        \E i \in 1..Len(body.results) : body.results[i] = body.best

\* C39: every answer of the artist handler has at most 10 candidates, each
\* with a canonical identifier, and its best, when not null, is one of them.
C39_BestAmongAtMostTen ==
    (last.op = "artist" /\ last.status = 200) =>
        /\ Len(last.body.results) <= 10
        /\ \A i \in 1..Len(last.body.results) :
              last.body.results[i].mbid # Undefined
        /\ BestIsReturned(last.body)

\* What is left of C39: at most 10 candidates, each with a canonical
\* identifier, in the order of the upstream answer; and best is among them
\* when the upstream answer has at most 10 artists with an identifier.
C39_AtMostTenWithIds ==
    (last.op = "artist" /\ last.status = 200) =>
        /\ Len(last.body.results) <= 10
        /\ \A i \in 1..Len(last.body.results) :
              last.body.results[i].mbid # Undefined
        /\ Cardinality(ArtistCandidates) <= 10 => BestIsReturned(last.body)

----------------------------------------------------------------------------
(* The artist handler while the upstream artist search goes down and comes *)
(* back: it answers 404 or 503, an array with one artist, or no artist     *)
(* property.  The process may start again and the writes of the cache may  *)
(* fail.                                                                   *)

UpstreamAnswers ==
    { [ok |-> FALSE, status |-> st,
       data |-> [kind |-> "missing", items |-> << >>]] : st \in {404, 503} }
    \cup { [ok |-> TRUE, status |-> 200, data |-> d] :
             d \in { [kind |-> "array",
                      items |-> <<[name |-> A_Zoe, mbid |-> "m2"]>>],
                     [kind |-> "missing", items |-> << >>] } }

OutageInit ==
    /\ memory = EmptyMap
    /\ disk = EmptyMap
    /\ now = 0
    /\ last = NoOp
    /\ sets = 0
    /\ latest = EmptyMap
    /\ env \in { [world |-> "outage", apiKey |-> TRUE, artists |-> a] :
                   a \in UpstreamAnswers }
    /\ home = NoPage

\* The upstream service changes its answer.
UpstreamTurn ==
    /\ \E a \in UpstreamAnswers \ {env.artists} :
          env' = [env EXCEPT !.artists = a]
    /\ UNCHANGED <<memory, disk, now, last, sets, latest, home>>

OutageNext ==
    \/ \E name \in {AQ_Zoe, AQ_Zo}, writeOk \in BOOLEAN :
          ArtistGET(name, writeOk)
    \/ UpstreamTurn
    \/ Restart

SpecOutage == OutageInit /\ [][OutageNext]_vars

IsArtistFailure(l) ==
    l.op = "artist" /\ l.upstream = 1 /\ l.status # 200

\* C25: a request that misses the cache while the upstream artist search
\* answers with a non-success response is answered with that status and no
\* result, and leaves both tiers of the cache as they were, holding nothing
\* to serve for the name; the request for the same name that follows asks
\* the upstream service again.
C25_FailureSurfacedNotCached ==
    [][ /\ (/\ last'.op = "artist" /\ last' # last
            /\ env' = env /\ ~env.artists.ok
            /\ ~last'.cached) =>
               /\ last'.status = env.artists.status
               /\ last'.status \notin 200..299
               /\ last'.body = NoBody
               /\ last'.upstream = 1
        /\ IsArtistFailure(last') =>
               /\ memory' = memory
               /\ disk' = disk
               /\ ~CacheGet(memory', disk', now',
                            ArtistCacheKey(last'.name)).ret.found
        /\ (/\ IsArtistFailure(last)
            /\ last'.op = "artist" /\ last'.name = last.name
            /\ env' = env) =>
               /\ ~last'.cached
               /\ last'.upstream = 1
      ]_vars

\* C25 witness: "Zo" was resolved and stored; then " ZOE" was asked for
\* while the upstream service answered 503: the answer is 503 without a
\* result and the cache holds no entry for " ZOE", only the one for "Zo".
C25_Witness ==
    /\ last.op = "artist"
    /\ last.name = AQ_Zoe
    /\ last.status = 503
    /\ last.upstream = 1
    /\ last.body = NoBody
    /\ ~env.artists.ok
    /\ DOMAIN memory = {ArtistCacheKey(AQ_Zo)}
    /\ DOMAIN disk = {getHash(ArtistCacheKey(AQ_Zo))}

----------------------------------------------------------------------------
(* The cache-clear handler: POST /api/cache/clear?prefix=..                *)
(* param is searchParams.get("prefix"): [present, value], null when the    *)
(* parameter is not given.  env.production is NODE_ENV === "production".   *)

ClearStatus_PrefixFirst(production, param) ==
    IF ~param.present \/ param.value = << >> THEN 400
    ELSE 200

\* The status of the response.
ClearStatus(production, param) ==
    IF production THEN 403
    ELSE IF ~param.present \/ param.value = << >> THEN 400
    ELSE 200

ClearPOST(param) ==
    LET status == ClearStatus(env.production, param)
        r == CacheClearPrefix(memory, disk, param.value)
    IN  IF status = 200
        THEN /\ memory' = r.memory
             /\ disk' = r.disk
             /\ last' = [op |-> "clear", param |-> param, status |-> 200,
                         clearedCount |-> r.count]
             /\ UNCHANGED <<now, sets, latest, env, home>>
        ELSE /\ last' = [op |-> "clear", param |-> param, status |-> status,
                         clearedCount |-> 0]
             /\ UNCHANGED <<memory, disk, now, sets, latest, env, home>>

----------------------------------------------------------------------------
(* The cache-clear handler on a cache that set fills, in production mode   *)
(* and outside it.                                                         *)

ClearParams ==
    { [present |-> FALSE, value |-> << >>] }
    \cup { [present |-> TRUE, value |-> prefix] : prefix \in CachePrefixes }

ClearInit ==
    /\ memory = EmptyMap
    /\ disk = EmptyMap
    /\ now = 0
    /\ last = NoOp
    /\ sets = 0
    /\ latest = EmptyMap
    /\ env \in { [world |-> "clear", production |-> p] : p \in BOOLEAN }
    /\ home = NoPage

ClearNext ==
    \/ \E key \in CacheKeys, value \in CacheValues, writeOk \in BOOLEAN :
          Set(key, value, 3, writeOk)
    \/ \E param \in ClearParams : ClearPOST(param)
    \/ Restart

SpecClear == ClearInit /\ [][ClearNext]_vars

\* C17: in production mode every cache-clear request is answered 403 and
\* leaves both tiers as they were; in any mode a request without a prefix
\* is rejected and removes nothing.
C17_ClearForbiddenOrRejected ==
    [][last'.op = "clear" =>
        /\ env.production =>
              /\ last'.status = 403
              /\ memory' = memory
              /\ disk' = disk
        /\ (~last'.param.present \/ last'.param.value = << >>) =>
              /\ last'.status \in {400, 403}
              /\ memory' = memory
              /\ disk' = disk
    ]_vars

\* In production mode a request naming the prefix of an entry that both
\* tiers hold was answered 403, and the entry is still there.
C17_Witness ==
    /\ last.op = "clear"
    /\ env.production
    /\ last.status = 403
    /\ last.param.present
    /\ last.param.value # << >>
    /\ \E k \in CacheKeys :
          /\ StartsWith(k, last.param.value)
          /\ MapHas(memory, k)
          /\ MapHas(disk, getHash(k))

----------------------------------------------------------------------------
(* The catalog handler outside resolve mode: GET /api/spotify/search with  *)
(* q, or with artist alone.  A parameter that is not given is << >>.       *)

\* Math.max and Math.min: NaN when an argument is NaN.
MathMax(a, b) == IF a.nan \/ b.nan THEN NaN ELSE Number(Max(a.n, b.n))

MathMin(a, b) == IF a.nan \/ b.nan THEN NaN ELSE Number(Min(a.n, b.n))

\* effectiveLimit
SearchEffectiveLimit(limitParam, q) ==
    IF limitParam # << >>
    THEN MathMin(MathMax(ParseInt(limitParam), Number(1)), Number(50))
    ELSE IF q # << >> THEN Number(10) ELSE Number(20)

\* String(effectiveLimit), for the numbers up to 99.
NumberText(x) ==
    IF x.nan THEN <<"NaN">>
    ELSE IF x.n < 10 THEN <<Digits[x.n + 1]>>
    ELSE <<Digits[(x.n \div 10) + 1], Digits[(x.n % 10) + 1]>>

\* `spotify:search:${q || artist || track}:${effectiveLimit}`
SearchCacheKey(q, artist, effectiveLimit) ==
    <<"spotify:", "search:">> \o (IF q # << >> THEN q ELSE artist)
        \o <<":">> \o NumberText(effectiveLimit)

\* searchUrl: the query and the limit sent upstream.
SearchUrl(q, artist, effectiveLimit) ==
    [q |-> IF q # << >> THEN q
           ELSE <<"artist:", "dq">> \o artist \o <<"dq">>,
     limit |-> effectiveLimit]

\* finalResult = items.map(..)
Summaries(items) ==
    [i \in 1..Len(items) |->
        [artist |-> IF items[i].artists # << >> THEN items[i].artists[1]
                    ELSE << >>,
         title |-> items[i].name, id |-> items[i].id, uri |-> items[i].uri]]

\* fetchSpotify(searchUrl) followed by data?.tracks?.items || []: the
\* upstream service answers the first limit tracks it has for the query,
\* and a non-success response to a limit that is not a number.
SearchItems(upstream, url) ==
    IF ~upstream.ok \/ url.limit.nan THEN << >>
    ELSE SubSeq(upstream.items[url.q], 1,
                Min(url.limit.n, Len(upstream.items[url.q])))

SearchResponse(q, artist, limitParam, status, body, source, sent) ==
    [op |-> "search", q |-> q, artist |-> artist, limitParam |-> limitParam,
     status |-> status, body |-> body, cacheSource |-> source, sent |-> sent]

\* The handler.  env.search is the upstream service: [ok, items], items
\* mapping a query to the tracks the service has for it.
SearchGET(q, artist, limitParam, writeOk) ==
    LET effectiveLimit == SearchEffectiveLimit(limitParam, q)
        cacheKey == SearchCacheKey(q, artist, effectiveLimit)
        got == CacheGet(memory, disk, now, cacheKey)
        searchUrl == SearchUrl(q, artist, effectiveLimit)
        finalResult == Summaries(SearchItems(env.search, searchUrl))
        put == CacheSet(got.memory, got.disk, now, cacheKey, finalResult,
                        TTL_RESOLVE, writeOk)
    IN  /\ q # << >> \/ artist # << >>
        /\ IF ~env.credentials
           THEN /\ last' = SearchResponse(q, artist, limitParam, 500, << >>,
                                          "none", << >>)
                /\ UNCHANGED <<memory, disk, now, sets, latest, env, home>>
           ELSE IF got.ret.found
           THEN /\ memory' = got.memory
                /\ disk' = got.disk
                /\ last' = SearchResponse(q, artist, limitParam, 200,
                                          got.ret.value, got.ret.source,
                                          << >>)
                /\ UNCHANGED <<now, sets, latest, env, home>>
           ELSE IF ~env.tokenOk
           THEN /\ memory' = got.memory
                /\ disk' = got.disk
                /\ last' = SearchResponse(q, artist, limitParam, 500, << >>,
                                          "none", << >>)
                /\ UNCHANGED <<now, sets, latest, env, home>>
           ELSE /\ sets < MaxSets
                /\ sets' = sets + 1
                /\ memory' = put.memory
                /\ disk' = put.disk
                /\ latest' = MapPut(latest, cacheKey,
                                    [expiresAt |-> now + TTL_RESOLVE])
                /\ last' = SearchResponse(q, artist, limitParam, 200,
                                          finalResult, "live", <<searchUrl>>)
                /\ UNCHANGED <<now, env, home>>

----------------------------------------------------------------------------
(* Free-query and artist-only searches for "Zoe" with every kind of limit  *)
(* parameter, the upstream service having up to MaxItems tracks.           *)

MaxItems == 2

\* not given, "-3", "99", " 7x", "abc"
SearchLimitParams ==
    { << >>, <<"-", "3">>, <<"9", "9">>, <<" ", "7", "x">>,
      <<"a", "b", "c">> }

SearchPool ==
    { [name |-> Q_Halo, artists |-> <<N_Zoe, N_Jay>>, id |-> "t1",
       uri |-> "u1"],
      [name |-> Q_Cover, artists |-> <<N_Jay>>, id |-> "t2", uri |-> "u2"],
      [name |-> Q_Halo, artists |-> <<N_ZoeBand>>, id |-> "t3",
       uri |-> "u3"] }

SearchQueries ==
    { A_Zoe, SearchUrl(<< >>, A_Zoe, Number(20)).q }

\* The service has its own answer to each query: l for the free text, and
\* for the artist query either the same or the tracks of l by that artist.
SearchWorlds ==
    { [world |-> "search", credentials |-> TRUE, tokenOk |-> TRUE,
       search |-> [ok |-> TRUE,
                   items |-> [query \in SearchQueries |->
                                IF query = A_Zoe \/ same THEN l
                                ELSE SelectSeq(l, LAMBDA t :
                                                    t.artists[1] = N_Zoe)]]] :
        l \in SeqsUpTo(SearchPool, MaxItems), same \in BOOLEAN }
    \cup { [world |-> "search", credentials |-> TRUE, tokenOk |-> TRUE,
            search |-> [ok |-> FALSE,
                        items |-> [query \in SearchQueries |-> << >>]]] }

SearchInit ==
    /\ memory = EmptyMap
    /\ disk = EmptyMap
    /\ now = 0
    /\ last = NoOp
    /\ sets = 0
    /\ latest = EmptyMap
    /\ env \in SearchWorlds
    /\ home = NoPage

SearchNext ==
    \/ \E limitParam \in SearchLimitParams :
          \/ SearchGET(A_Zoe, << >>, limitParam, TRUE)
          \/ SearchGET(<< >>, A_Zoe, limitParam, TRUE)

SpecSearch == SearchInit /\ [][SearchNext]_vars

\* C20: a free-query search with a limit parameter sends upstream an
\* effective limit within 1..50, and what it returns is the summaries of the
\* tracks of the upstream answer, in the order of the answer.
C20_SearchLimitAndOrder ==
    (/\ last.op = "search"
     /\ last.q # << >>
     /\ last.limitParam # << >>
     /\ last.cacheSource = "live") =>
        /\ Len(last.sent) = 1
        /\ ~last.sent[1].limit.nan
        /\ last.sent[1].limit.n \in 1..50
        /\ env.search.ok =>
              LET all == env.search.items[last.q]
                  n == Min(last.sent[1].limit.n, Len(all))
              IN  /\ Len(last.body) = n
                  /\ \A i \in 1..n :
                        /\ last.body[i].id = all[i].id
                        /\ last.body[i].uri = all[i].uri
                        /\ last.body[i].title = all[i].name
                        /\ last.body[i].artist = all[i].artists[1]

\* C34: a search answered from the cache returns what a live call for that
\* very request is computed from: the summaries of the upstream answer to
\* the query the request sends, cut at its effective limit.  (The upstream
\* service of a world does not change, so the entry served was computed
\* from the answers it still gives.)
C34_HitIsWhatLiveWouldBe ==
    (/\ last.op = "search"
     /\ last.status = 200
     /\ last.cacheSource \in {"memory", "disk"}
     /\ env.search.ok) =>
        last.body =
            Summaries(SearchItems(env.search,
                SearchUrl(last.q, last.artist,
                          SearchEffectiveLimit(last.limitParam, last.q))))

\* C33: a search answered from a non-success upstream response stores
\* nothing in the cache: neither tier holds an entry under the request's key
\* once the handler has answered.
C33_FailureNeverCached ==
    (/\ last.op = "search"
     /\ last.cacheSource = "live"
     /\ ~env.search.ok) =>
        LET cacheKey ==
                SearchCacheKey(last.q, last.artist,
                               SearchEffectiveLimit(last.limitParam, last.q))
        IN  /\ ~MapHas(memory, cacheKey)
            /\ ~MapHas(disk, getHash(cacheKey))

----------------------------------------------------------------------------
(* The four handlers of one deployment, whose configuration changes from   *)
(* one start of the process to the next: SETLISTFM_API_KEY and the catalog *)
(* client credentials are set or not.  The in-process tier is lost at a    *)
(* start; the files of the cache stay.                                     *)

Reconfigure(apiKey, credentials) ==
    /\ memory' = EmptyMap
    /\ env' = [env EXCEPT !.apiKey = apiKey, !.credentials = credentials]
    /\ last' = [op |-> "reconfigure"]
    /\ UNCHANGED <<disk, now, sets, latest, home>>

Deployment(apiKey, credentials) ==
    [world |-> "deployment", apiKey |-> apiKey, credentials |-> credentials,
     tokenOk |-> TRUE, currentYear |-> BaseYear,
     artists |-> [ok |-> TRUE, status |-> 200,
                  data |-> [kind |-> "object",
                            items |-> <<[name |-> A_Zoe, mbid |-> "m1"]>>]],
     pages |-> [m \in {"m1"} |->
                 << [ok |-> TRUE, total |-> 1, itemsPerPage |-> 20,
                     setlist |-> << Setlist("s1", DateText(D_0106, BaseYear),
                                            << <<T_One>> >>) >>] >>],
     catalog |-> Catalog(Q_Halo, StrictAnswer(Q_Halo, << <<N_Zoe>> >>),
                         Failure),
     search |-> [ok |-> TRUE,
                 items |-> [query \in SearchQueries |->
                              <<CHOOSE t \in SearchPool : t.id = "t1">>]]]

ConfigInit ==
    /\ memory = EmptyMap
    /\ disk = EmptyMap
    /\ now = 0
    /\ last = NoOp
    /\ sets = 0
    /\ latest = EmptyMap
    /\ env \in { Deployment(apiKey, credentials) :
                    apiKey \in BOOLEAN, credentials \in BOOLEAN }
    /\ home = NoPage

ConfigNext ==
    \/ ArtistGET(AQ_Zoe, TRUE)
    \/ UnionGET("m1", << >>, TRUE)
    \/ ResolveGET(Q_Artist, Q_Halo, TRUE)
    \/ SearchGET(A_Zoe, << >>, << >>, TRUE)
    \/ \E apiKey \in BOOLEAN, credentials \in BOOLEAN :
          Reconfigure(apiKey, credentials)

SpecConfig == ConfigInit /\ [][ConfigNext]_vars

\* C18: when the credentials of the upstream service of a handler are not
\* configured, artist resolution, setlist aggregation and catalog search
\* (track resolution and free search) answer 500 without any upstream call,
\* whatever the cache holds.
C18_UnconfiguredIs500 ==
    /\ (last.op = "artist" /\ ~env.apiKey) =>
          /\ last.status = 500
          /\ last.upstream = 0
    /\ (last.op = "union" /\ ~env.apiKey) => last.status = 500
    /\ (last.op = "resolve" /\ ~env.credentials) =>
          /\ last.status = 500
          /\ last.queries = << >>
    /\ (last.op = "search" /\ ~env.credentials) =>
          /\ last.status = 500
          /\ last.sent = << >>

----------------------------------------------------------------------------
(* The normalizations applied to every string of at most MaxLen characters *)
(* of an alphabet holding a capital letter, an accented capital letter,    *)
(* white space, a slash, parentheses, square brackets and a punctuation    *)
(* mark.  env.s is the string; last holds f(s) and f(f(s)).                *)

MaxLen == 3

NormalizeAlphabet == {"A", "E'", " ", "/", "(", ")", "[", "]", "!"}

NormalizeInputs == UNION { [1..n -> NormalizeAlphabet] : n \in 0..MaxLen }

Normalizers == {"catalog", "union", "dedupeKey", "artist"}

\* The normalization named fn, applied to s.
ApplyNormalize(fn, s) ==
    IF fn = "catalog" THEN CatalogNormalize(s)
    ELSE IF fn = "union" THEN UnionNormalize(s)
    ELSE IF fn = "dedupeKey" THEN getDedupeKey(s)
    ELSE artistNormalize(s)

Normalize(fn) ==
    /\ last' = [op |-> "normalize", fn |-> fn,
                once |-> ApplyNormalize(fn, env.s),
                twice |-> ApplyNormalize(fn, ApplyNormalize(fn, env.s))]
    /\ UNCHANGED <<memory, disk, now, sets, latest, env, home>>

NormalizeInit ==
    /\ memory = EmptyMap
    /\ disk = EmptyMap
    /\ now = 0
    /\ last = NoOp
    /\ sets = 0
    /\ latest = EmptyMap
    /\ env \in { [world |-> "normalize", s |-> s] : s \in NormalizeInputs }
    /\ home = NoPage

NormalizeNext == \E fn \in Normalizers : Normalize(fn)

SpecNormalize == NormalizeInit /\ [][NormalizeNext]_vars

\* C19: normalizing a normalized string changes nothing, for the catalog
\* normalization, the aggregator's title normalization and dedupe key, and
\* the artist-name normalization of the cache key.
C19_NormalizeIdempotent ==
    last.op = "normalize" => last.twice = last.once

\* The catalog normalization of "A/(" is "a (", an unmatched parenthesis
\* behind the space that stands for the slash, and normalizes to itself.
C19_Witness ==
    /\ last.op = "normalize"
    /\ last.fn = "catalog"
    /\ env.s = <<"A", "/", "(">>
    /\ last.once = <<"a", " ", "(">>
    /\ last.twice = last.once

====
